---- MODULE Spec2Model ----
(***************************************************************************)
(* The ledger core of the YourBank back office (backend/api.py over        *)
(* database/models.py): account approval with the per-branch serial,       *)
(* cash deposits, PIN-authenticated transfers, loan disbursal and SIP      *)
(* processing, all posting double-entry rows to an append-only ledger.     *)
(*                                                                         *)
(* Every HTTP request runs on its own worker in its own database           *)
(* transaction (MySQL/InnoDB, REPEATABLE READ, the configured default):    *)
(* the handler's SELECTs read one consistent snapshot taken at its first   *)
(* query, its INSERT/UPDATEs become visible to other workers at commit.    *)
(* A handler whose writes depend on what it read is therefore two steps,   *)
(* "begin" (snapshot, validation) and "commit" (flush + commit).           *)
(*                                                                         *)
(* Money is counted in units of 1/Cent of 0.01, so that request amounts    *)
(* with more than two fractional digits exist; the NUMERIC(14,2) columns   *)
(* hold multiples of Cent.                                                 *)
(***************************************************************************)
EXTENDS Integers, Sequences, FiniteSets, TLC

----------------------------------------------------------------------------
(* Bounds of the model *)

\* sub-units per 0.01 in a request amount
Cent == 3
\* largest request amount, in sub-units
MaxAmount == 4
\* transactions the ledger may hold
MaxTx == 3
\* accounts the accounts table may hold
MaxAccounts == 5
\* posting times a ledger read by the history reader may carry
MaxTime == 2

Workers == {1, 2}

----------------------------------------------------------------------------
(* Program constants *)

START_SERIAL == 1000000001

\* account_transactions: limit = 20 when absent or unparsable, at most 100
DEFAULT_LIMIT == 20
MAX_LIMIT == 100

GL_CASH_VAULT == "CASH_VAULT"
GL_BANK_LOAN == "BANK_LOAN_GL"
GL_INVESTMENT == "INVESTMENT_GL"

NULL == 0
NoGL == ""

----------------------------------------------------------------------------
(* Static tables: users, roles, customers, branches *)

Users == {"u1", "u2", "emp"}

\* Customer.query.filter_by(user_id=current_user.id).first(); NULL when none
_get_customer(u) ==
  CASE u = "u1" -> 1
    [] u = "u2" -> 2
    [] OTHER -> NULL

\* _has_role("EMPLOYEE") or _has_role("ADMIN")
_has_role(u) == u = "emp"

Branches == {1, 2}

VARIABLES
  accounts,    \* accounts table: row i is the account with id i
  requests,    \* account_requests table
  seq,         \* account_number_seq: branch -> next_serial, NULL when no row
  txs,         \* transactions table: row i is the transaction with id i
  entries,     \* ledger_entries table, in id order
  ib,          \* internet_banking: account id -> pin_hash, <<>> when no row
  loanApps,    \* loan_applications table
  loanHistory, \* loan_app_history table, in id order
  sipApps,     \* sip_applications table
  inflight,    \* per worker: the request it is handling, between begin and commit
  last         \* the response most recently returned

vars == <<accounts, requests, seq, txs, entries, ib, loanApps, loanHistory, sipApps, inflight, last>>
db == <<accounts, requests, seq, txs, entries, ib, loanApps, loanHistory, sipApps>>


----------------------------------------------------------------------------
(* Money *)

\* Decimal(str(x)): a request amount is a parsed number or unparsable text
Unparsable == [ok |-> FALSE, v |-> 0]

RawAmounts ==
  {[ok |-> TRUE, v |-> n] : n \in (0 - 1) .. MaxAmount} \cup {Unparsable}

\* what a NUMERIC(14,2) column keeps of a Decimal: rounded half away from zero
\* to two fractional digits
Numeric2(v) ==
  IF v >= 0
    THEN ((2 * v + Cent) \div (2 * Cent)) * Cent
    ELSE 0 - (((2 * (0 - v) + Cent) \div (2 * Cent)) * Cent)

----------------------------------------------------------------------------
(* PINs: a PIN is the sequence of its characters, digits being 0..9 *)

PinA == <<1, 2, 3, 4>>
PinB == <<4, 3, 2, 1>>
PinShort == <<1, 2>>
PinAlpha == <<1, 2, 3, 10>>
Pins == {PinA, PinB, PinShort, PinAlpha}

\* pin.isdigit() and len(pin) in (4, 6)
PinWellFormed(pin) ==
  /\ Len(pin) > 0
  /\ \A i \in 1 .. Len(pin) : pin[i] \in 0 .. 9
  /\ Len(pin) \in {4, 6}

NoPin == <<>>

\* bcrypt.hash / bcrypt.verify: a one-way hash, verified by re-hashing
bcrypt_hash(pin) == <<"bcrypt">> \o pin
bcrypt_verify(pin, h) == h = bcrypt_hash(pin)

----------------------------------------------------------------------------
(* Account numbers *)

RECURSIVE Digits(_)
Digits(n) == IF n < 10 THEN <<n>> ELSE Digits(n \div 10) \o <<n % 10>>

\* Branch.code, e.g. B001: the letter is written 11
BranchCode(b) == <<11, 0, 0, b>>

\* f"{br.code}{serial}"
AccountNo(b, serial) == BranchCode(b) \o Digits(serial)

----------------------------------------------------------------------------
(* Reads *)

AccountIds == 1 .. Len(accounts)

\* Account.query.get(id)
AccountById(id) == IF id \in AccountIds THEN id ELSE NULL

\* Account.query.filter_by(account_no=...).first()
AccountByNo(no) ==
  IF \E i \in AccountIds : accounts[i].account_no = no
    THEN CHOOSE i \in AccountIds :
           /\ accounts[i].account_no = no
           /\ \A j \in AccountIds : accounts[j].account_no = no => i <= j
    ELSE NULL

\* _first_account_for_user(active_only)
_first_account_for_user(u, active_only) ==
  LET cust == _get_customer(u)
      mine == {i \in AccountIds :
                 /\ accounts[i].customer_id = cust
                 /\ (active_only => accounts[i].status = "ACTIVE")}
  IN IF cust = NULL \/ mine = {} THEN NULL
     ELSE CHOOSE i \in mine : \A j \in mine : i <= j

\* func.coalesce(func.sum(LedgerEntry.amount), 0) filtered on account and side
RECURSIVE SumAmount(_, _, _)
SumAmount(es, account_id, dr_cr) ==
  IF es = <<>> THEN 0
  ELSE (IF Head(es).account_id = account_id /\ Head(es).dr_cr = dr_cr
          THEN Head(es).amount ELSE 0)
       + SumAmount(Tail(es), account_id, dr_cr)

BalanceIn_ignores_debits(es, account_id) == SumAmount(es, account_id, "CR")

\* cr = coalesce(sum(CR amounts), 0); dr = coalesce(sum(DR amounts), 0);
\* Decimal(cr) - Decimal(dr), over the ledger rows es the query sees
BalanceIn(es, account_id) ==
  SumAmount(es, account_id, "CR") - SumAmount(es, account_id, "DR")

Balance(account_id) == BalanceIn(entries, account_id)

----------------------------------------------------------------------------
(* Rows *)

Account(customer_id, branch_id, serial, status) ==
  [customer_id |-> customer_id, branch_id |-> branch_id,
   account_no |-> AccountNo(branch_id, serial), status |-> status]

Transaction(type, created_by) ==
  [type |-> type, status |-> "POSTED", created_by |-> created_by]

\* amount is a NUMERIC(14,2) column
LedgerEntry(transaction_id, account_id, gl_code, dr_cr, amount) ==
  [transaction_id |-> transaction_id, account_id |-> account_id,
   gl_code |-> gl_code, dr_cr |-> dr_cr, amount |-> Numeric2(amount)]

\* a stage change of a loan application; remarks holds the account number a
\* disbursal names ("Loan disbursed to {account_no}"), NoRemark otherwise
NoRemark == <<>>

LoanAppHistory(application_id, to_stage, remarks) ==
  [application_id |-> application_id, to_stage |-> to_stage, remarks |-> remarks]

\* a worker's request: the handler it is in and the request fields and reads
\* the handler holds between its checks and its commit; stage is how far its
\* session has got, where the steps of the session are told apart: "" past the
\* checks, "flushed" with the Transaction row INSERTed, "added" with the two
\* entries added
Idle ==
  [pc |-> "idle", caller |-> "", src |-> NULL, dst |-> NULL, amt |-> 0,
   pin |-> NoPin, req |-> NULL, serial |-> 0, has_seq |-> FALSE, stage |-> ""]

\* what the model keeps of a JSON response: the handler, its message (OK for a
\* 2xx), and the balance it reports with the account the balance is of (NULL
\* and 0 when it reports none)
Response(op, code, acc, bal) == [op |-> op, code |-> code, acc |-> acc, bal |-> bal]

----------------------------------------------------------------------------
(* The database the handlers start from: the seeded branches, branch 1 with *)
(* its sequence row and three accounts opened earlier (one of them frozen   *)
(* since), branch 2 without a sequence row yet; pending account requests;   *)
(* for customer 1 an approved loan and an approved, active SIP on account   *)
(* 1, for customer 2 a pending loan and a pending SIP; account 1 was opened *)
(* with an initial deposit of 0.01, the one transaction in the ledger.      *)

Init ==
  /\ accounts = << Account(1, 1, START_SERIAL, "ACTIVE"),
                   Account(2, 1, START_SERIAL + 1, "ACTIVE"),
                   Account(2, 1, START_SERIAL + 2, "FROZEN") >>
  /\ requests = << [customer_id |-> 1, branch_id |-> 1, status |-> "PENDING"],
                   [customer_id |-> 2, branch_id |-> 1, status |-> "PENDING"],
                   [customer_id |-> 1, branch_id |-> 2, status |-> "PENDING"],
                   [customer_id |-> 2, branch_id |-> 2, status |-> "PENDING"] >>
  /\ seq = [b \in Branches |-> IF b = 1 THEN START_SERIAL + 3 ELSE NULL]
  /\ txs = << Transaction("DEPOSIT", "emp") >>
  /\ entries = << LedgerEntry(1, NULL, GL_CASH_VAULT, "DR", Cent),
                  LedgerEntry(1, 1, NoGL, "CR", Cent) >>
  /\ ib = [i \in 1 .. MaxAccounts |-> IF i = 1 THEN bcrypt_hash(PinA) ELSE NoPin]
  /\ loanApps = << [customer_id |-> 1, amount |-> Cent, status |-> "APPROVED"],
                    [customer_id |-> 2, amount |-> Cent, status |-> "PENDING"] >>
  /\ loanHistory = << LoanAppHistory(1, "APPROVED", NoRemark) >>
  /\ sipApps = << [customer_id |-> 1, account_id |-> 1, monthly_amount |-> Cent,
                   status |-> "APPROVED", is_active |-> TRUE],
                  [customer_id |-> 2, account_id |-> 2, monthly_amount |-> Cent,
                   status |-> "PENDING", is_active |-> FALSE] >>
  /\ inflight = [w \in Workers |-> Idle]
  /\ last = Response("", "", NULL, 0)


----------------------------------------------------------------------------
(* Responses: the message of each early return *)

OK == "ok"
E_FORBIDDEN == "EMPLOYEE role required"
\* abort(403) of _require_employee_or_admin
E_ABORT_403 == "Forbidden"
E_NO_ACCOUNT == "No account found. Please open an account first."
E_NOT_FOUND == "Invalid source or destination account"
E_SAME == "Cannot transfer to the same account"
E_NOT_ACTIVE == "Both accounts must be ACTIVE"
E_NOT_ALLOWED == "Not allowed for this source account"
E_INVALID_AMOUNT == "Invalid amount"
E_AMOUNT_POSITIVE == "Amount must be > 0"
E_PIN_FORMAT == "PIN must be 4 or 6 digits"
E_PIN == "Invalid PIN or IB not activated"
E_FUNDS == "Insufficient funds"
E_ACC_NOT_FOUND == "Account not found"
E_ACC_NOT_ACTIVE == "Account not active"
E_ACC_NO_REQUIRED == "account_no required"
E_INIT_INVALID == "invalid initial_deposit"
E_INIT_NEGATIVE == "initial_deposit must be >= 0"
E_REQ_NOT_FOUND == "Request not found"
\* f"Request already {ar.status.value}"
E_REQ_ALREADY == "Request already APPROVED or REJECTED"
E_INTEGRITY == "IntegrityError"
\* an exception (or a lost connection) inside the handler: HTTP 500
E_SERVER_ERROR == "Internal Server Error"
E_LOAN_NOT_FOUND == "Loan application not found"
E_LOAN_NOT_APPROVED == "Loan not approved"
\* f"Already {app.status.value}"
E_LOAN_ALREADY == "Already APPROVED or REJECTED"
E_REMARK_REQUIRED == "Remark is required"
E_REMARK_DECLINE == "Remark is required to decline"
E_DISBURSE_INVALID == "Invalid disburse amount"
E_DISBURSE_POSITIVE == "Disburse amount must be > 0"
E_SIP_NOT_FOUND == "SIP application not found"
E_SIP_NOT_ACTIVE == "SIP is not active"
E_SIP_FUNDS == "Insufficient balance for SIP"
E_BEFORE_INVALID == "Invalid 'before' cursor"
E_NO_ACTIVE_ACCOUNT == "No active account found. Please open an account first."
E_ACC_NOT_ALLOWED == "Not allowed for this account"
E_IB_ACC_ACTIVE == "Account must be ACTIVE to activate IB"
E_IB_ALREADY == "Internet Banking already activated"
E_NEW_PIN_FORMAT == "New PIN must be 4 or 6 digits"
E_PIN_CONFIRM == "New PIN and confirm do not match"
E_IB_NOT_ACTIVATED == "Internet Banking not activated"
E_OLD_PIN == "Old PIN is incorrect"
E_IB_NOT_ACTIVE == "Internet Banking is not active"
E_PIN_INCORRECT == "PIN is incorrect"

Reject(op, code) == Response(op, code, NULL, 0)

\* workers between begin and commit of a request that will post a transaction
Posting ==
  {w \in Workers :
     \/ inflight[w].pc \in {"ib_transfer", "ops_sip_process", "ops_post_deposit"}
     \/ inflight[w].pc = "ops_approve_request" /\ inflight[w].amt > 0}

\* workers between begin and commit of an approval
Approving == {w \in Workers : inflight[w].pc = "ops_approve_request"}

\* the ledger still has room for one more transaction
Room == Len(txs) + Cardinality(Posting) < MaxTx

SomeIdle == \E w \in Workers : inflight[w].pc = "idle"

\* the worker a new request runs on: the workers do not differ, so the first
\* free one
FreeWorker ==
  CHOOSE w \in Workers :
    /\ inflight[w].pc = "idle"
    /\ \A v \in Workers : inflight[v].pc = "idle" => w <= v

\* the accounts a request can name: every row, or none (a missing key, an
\* unknown id or number)
Named == {NULL} \cup AccountIds

----------------------------------------------------------------------------
(* ib_transfer *)

owns_source_any_customer(u, from_acc) == _get_customer(u) # NULL

\* lines 767-768: cust = _get_customer(); cust and from_acc.customer_id == cust.id
owns_source(u, from_acc) ==
  /\ _get_customer(u) # NULL
  /\ accounts[from_acc].customer_id = _get_customer(u)

pin_check_skips_missing_ib(from_acc, pin) ==
  IF ~PinWellFormed(pin) THEN E_PIN_FORMAT
  ELSE IF ib[from_acc] # NoPin /\ ~bcrypt_verify(pin, ib[from_acc]) THEN E_PIN
  ELSE OK

\* lines 775-780: the format of the pin, then the credential of the source
\* account and the pin against its hash
pin_check(from_acc, pin) ==
  IF ~PinWellFormed(pin) THEN E_PIN_FORMAT
  ELSE IF ib[from_acc] = NoPin \/ ~bcrypt_verify(pin, ib[from_acc]) THEN E_PIN
  ELSE OK

funds_short_or_equal(bal, amt) == bal <= amt

\* line 786: bal < amt
funds_short(bal, amt) == bal < amt

ib_transfer_check_funds_first(u, from_acc, to_acc, raw, pin) ==
  IF _first_account_for_user(u, FALSE) = NULL THEN E_NO_ACCOUNT
  ELSE IF from_acc = NULL \/ to_acc = NULL THEN E_NOT_FOUND
  ELSE IF raw.ok /\ funds_short(Balance(from_acc), raw.v) THEN E_FUNDS
  ELSE IF from_acc = to_acc THEN E_SAME
  ELSE IF accounts[from_acc].status # "ACTIVE" \/ accounts[to_acc].status # "ACTIVE"
    THEN E_NOT_ACTIVE
  ELSE IF ~owns_source(u, from_acc) THEN E_NOT_ALLOWED
  ELSE IF ~raw.ok THEN E_INVALID_AMOUNT
  ELSE IF raw.v <= 0 THEN E_AMOUNT_POSITIVE
  ELSE pin_check(from_acc, pin)

\* the early returns of ib_transfer, in the order of the code (lines 746-787)
ib_transfer_check(u, from_acc, to_acc, raw, pin) ==
  IF _first_account_for_user(u, FALSE) = NULL THEN E_NO_ACCOUNT
  ELSE IF from_acc = NULL \/ to_acc = NULL THEN E_NOT_FOUND
  ELSE IF from_acc = to_acc THEN E_SAME
  ELSE IF accounts[from_acc].status # "ACTIVE" \/ accounts[to_acc].status # "ACTIVE"
    THEN E_NOT_ACTIVE
  ELSE IF ~owns_source(u, from_acc) THEN E_NOT_ALLOWED
  ELSE IF ~raw.ok THEN E_INVALID_AMOUNT
  ELSE IF raw.v <= 0 THEN E_AMOUNT_POSITIVE
  ELSE IF pin_check(from_acc, pin) # OK THEN pin_check(from_acc, pin)
  ELSE IF funds_short(Balance(from_acc), raw.v) THEN E_FUNDS
  ELSE OK

ib_transfer_rows_staged_before_funds_check(code, tx_id, from_acc, to_acc, amt) ==
  IF code \in {OK, E_FUNDS}
    THEN << LedgerEntry(tx_id, from_acc, NoGL, "DR", amt),
            LedgerEntry(tx_id, to_acc, NoGL, "CR", amt) >>
    ELSE << >>

\* the rows the handler has added to the session when it returns with `code`
ib_transfer_rows(code, tx_id, from_acc, to_acc, amt) ==
  IF code = OK
    THEN << LedgerEntry(tx_id, from_acc, NoGL, "DR", amt),
            LedgerEntry(tx_id, to_acc, NoGL, "CR", amt) >>
    ELSE << >>

\* how the handler leaves its checks: with an early return, or on to posting
ib_transfer_return(code, u, from_acc, to_acc, raw, pin) ==
  IF code = OK
    THEN /\ Room
         /\ inflight' = [inflight EXCEPT ![FreeWorker] =
              [Idle EXCEPT !.pc = "ib_transfer", !.caller = u, !.src = from_acc,
                           !.dst = to_acc, !.amt = raw.v, !.pin = pin]]
         /\ UNCHANGED <<db, last>>
    ELSE /\ entries' = entries \o
              ib_transfer_rows(code, Len(txs) + 1, from_acc, to_acc, raw.v)
         /\ last' = IF code = E_FUNDS
                      THEN Response("ib_transfer", code, from_acc, Balance(from_acc))
                      ELSE Reject("ib_transfer", code)
         /\ UNCHANGED <<accounts, requests, seq, txs, ib, loanApps, loanHistory, sipApps, inflight>>

\* lines 746-787: the snapshot reads and the checks. The handler reads the
\* request's accounts only for a caller who has an account, its amount only
\* once the account checks have passed, its pin only once the amount has: a
\* request that returns earlier is enumerated once, whatever its later
\* fields hold.
ib_transfer_begin ==
  /\ SomeIdle
  /\ \E u \in Users :
       LET c == ib_transfer_check(u, NULL, NULL, Unparsable, NoPin)
       IN IF c # E_NOT_FOUND
            THEN ib_transfer_return(c, u, NULL, NULL, Unparsable, NoPin)
            ELSE \E from_acc \in Named, to_acc \in Named :
              LET c0 == ib_transfer_check(u, from_acc, to_acc, Unparsable, NoPin)
              IN IF c0 # E_INVALID_AMOUNT
                   THEN ib_transfer_return(c0, u, from_acc, to_acc, Unparsable, NoPin)
                   ELSE \E raw \in RawAmounts :
                     LET c1 == ib_transfer_check(u, from_acc, to_acc, raw, NoPin)
                     IN IF c1 # E_PIN_FORMAT
                          THEN ib_transfer_return(c1, u, from_acc, to_acc, raw, NoPin)
                          ELSE \E pin \in Pins :
                                 ib_transfer_return(
                                   ib_transfer_check(u, from_acc, to_acc, raw, pin),
                                   u, from_acc, to_acc, raw, pin)

\* lines 788-801: the Transaction and its two entries, committed together,
\* and the source balance read back for the response
ib_transfer_commit(w) ==
  /\ inflight[w].pc = "ib_transfer"
  /\ LET r == inflight[w]
         tx_id == Len(txs) + 1
         es == entries \o ib_transfer_rows(OK, tx_id, r.src, r.dst, r.amt)
     IN /\ txs' = Append(txs, Transaction("TRANSFER", r.caller))
        /\ entries' = es
        /\ last' = Response("ib_transfer", OK, r.src, BalanceIn(es, r.src))
  /\ inflight' = [inflight EXCEPT ![w] = Idle]
  /\ UNCHANGED <<accounts, requests, seq, ib, loanApps, loanHistory, sipApps>>

----------------------------------------------------------------------------
(* Internet banking: the credential of an account. InternetBanking.account_id *)
(* is unique, so an account has one row or none: ib[a] is its pin_hash, NoPin *)
(* when it has no row.                                                        *)

\* pin.isdigit()
PinIsDigit(pin) == Len(pin) > 0 /\ \A i \in 1 .. Len(pin) : pin[i] \in 0 .. 9

\* the account an internet-banking request is about: the one it names
\* (_get_owned_account), or the caller's first ACTIVE account when it names
\* none (_require_any_account(active_only=True)); named: whether the request
\* carries an account_no or account_id
ib_account(u, named, acc) ==
  IF named THEN acc ELSE _first_account_for_user(u, TRUE)

\* lines 642-656 and 100-106: why the request has no account
ib_account_check(u, named, acc) ==
  IF ~named
    THEN IF _first_account_for_user(u, TRUE) = NULL THEN E_NO_ACTIVE_ACCOUNT ELSE OK
  ELSE IF acc = NULL THEN E_ACC_NOT_FOUND
  ELSE IF _get_customer(u) = NULL \/ accounts[acc].customer_id # _get_customer(u)
    THEN E_ACC_NOT_ALLOWED
  ELSE OK

\* the response of an internet-banking request: the account it was about and
\* the pin it stored, if any
IbResponse(op, code, acc, pin) ==
  [op |-> op, code |-> code, acc |-> acc, bal |-> 0, pin |-> pin]

ib_activate_check_allows_reactivation(u, named, acc, pin) ==
  IF _first_account_for_user(u, FALSE) = NULL THEN E_NO_ACCOUNT
  ELSE IF ~PinWellFormed(pin) THEN E_PIN_FORMAT
  ELSE IF ib_account_check(u, named, acc) # OK THEN ib_account_check(u, named, acc)
  ELSE IF accounts[ib_account(u, named, acc)].status # "ACTIVE" THEN E_IB_ACC_ACTIVE
  ELSE OK

\* lines 674-691: the early returns of ib_activate
ib_activate_check(u, named, acc, pin) ==
  IF _first_account_for_user(u, FALSE) = NULL THEN E_NO_ACCOUNT
  ELSE IF ~PinWellFormed(pin) THEN E_PIN_FORMAT
  ELSE IF ib_account_check(u, named, acc) # OK THEN ib_account_check(u, named, acc)
  ELSE IF accounts[ib_account(u, named, acc)].status # "ACTIVE" THEN E_IB_ACC_ACTIVE
  ELSE IF ib[ib_account(u, named, acc)] # NoPin THEN E_IB_ALREADY
  ELSE OK

\* lines 672-694: InternetBanking(account_id, pin_hash=bcrypt.hash(pin)); commit
ib_activate ==
  /\ SomeIdle
  /\ \E u \in Users, named \in BOOLEAN, acc \in Named, pin \in Pins :
       LET code == ib_activate_check(u, named, acc, pin)
           a == ib_account(u, named, acc)
       IN /\ ~named => acc = NULL
          /\ IF code = OK
               THEN /\ ib' = [ib EXCEPT ![a] = bcrypt_hash(pin)]
                    /\ last' = IbResponse("ib_activate", OK, a, pin)
               ELSE /\ ib' = ib
                    /\ last' = IbResponse("ib_activate", code, NULL, NoPin)
  /\ UNCHANGED <<accounts, requests, seq, txs, entries, loanApps, loanHistory,
                 sipApps, inflight>>

\* lines 700-715: the early returns of ib_change_pin
ib_change_pin_check(u, named, acc, old_pin, new_pin, confirm) ==
  IF _first_account_for_user(u, FALSE) = NULL THEN E_NO_ACCOUNT
  ELSE IF ~PinWellFormed(new_pin) THEN E_NEW_PIN_FORMAT
  ELSE IF new_pin # confirm THEN E_PIN_CONFIRM
  ELSE IF ib_account_check(u, named, acc) # OK THEN ib_account_check(u, named, acc)
  ELSE IF ib[ib_account(u, named, acc)] = NoPin THEN E_IB_NOT_ACTIVATED
  ELSE IF ~PinIsDigit(old_pin)
          \/ ~bcrypt_verify(old_pin, ib[ib_account(u, named, acc)]) THEN E_OLD_PIN
  ELSE OK

\* lines 716-719: ib.pin_hash = bcrypt.hash(new_pin); commit
ib_change_pin_return(code, u, named, acc, new_pin) ==
  /\ IF code = OK
       THEN /\ ib' = [ib EXCEPT ![ib_account(u, named, acc)] = bcrypt_hash(new_pin)]
            /\ last' = IbResponse("ib_change_pin", OK, ib_account(u, named, acc), new_pin)
       ELSE /\ ib' = ib
            /\ last' = IbResponse("ib_change_pin", code, NULL, NoPin)
  /\ UNCHANGED <<accounts, requests, seq, txs, entries, loanApps, loanHistory,
                 sipApps, inflight>>

\* lines 698-719; a request that returns early is enumerated once, whatever
\* the fields hold that the handler has not come to
ib_change_pin ==
  /\ SomeIdle
  /\ \E u \in Users, new_pin \in Pins :
       LET c == ib_change_pin_check(u, FALSE, NULL, NoPin, new_pin, NoPin)
       IN IF c # E_PIN_CONFIRM
            THEN ib_change_pin_return(c, u, FALSE, NULL, new_pin)
            ELSE \E confirm \in {new_pin, NoPin}, named \in BOOLEAN, acc \in Named :
              LET c0 == ib_change_pin_check(u, named, acc, NoPin, new_pin, confirm)
              IN /\ ~named => acc = NULL
                 /\ IF c0 # E_OLD_PIN
                      THEN ib_change_pin_return(c0, u, named, acc, new_pin)
                      ELSE \E old_pin \in Pins :
                             ib_change_pin_return(
                               ib_change_pin_check(u, named, acc, old_pin, new_pin,
                                                   confirm),
                               u, named, acc, new_pin)

\* lines 725-735: the early returns of ib_deactivate
ib_deactivate_check(u, named, acc, pin) ==
  IF _first_account_for_user(u, FALSE) = NULL THEN E_NO_ACCOUNT
  ELSE IF ib_account_check(u, named, acc) # OK THEN ib_account_check(u, named, acc)
  ELSE IF ib[ib_account(u, named, acc)] = NoPin THEN E_IB_NOT_ACTIVE
  ELSE IF ~PinIsDigit(pin)
          \/ ~bcrypt_verify(pin, ib[ib_account(u, named, acc)]) THEN E_PIN_INCORRECT
  ELSE OK

\* lines 723-737: db.session.delete(ib); commit
ib_deactivate ==
  /\ SomeIdle
  /\ \E u \in Users, named \in BOOLEAN, acc \in Named, pin \in Pins :
       LET code == ib_deactivate_check(u, named, acc, pin)
           a == ib_account(u, named, acc)
       IN /\ ~named => acc = NULL
          /\ IF code = OK
               THEN /\ ib' = [ib EXCEPT ![a] = NoPin]
                    /\ last' = IbResponse("ib_deactivate", OK, a, NoPin)
               ELSE /\ ib' = ib
                    /\ last' = IbResponse("ib_deactivate", code, NULL, NoPin)
  /\ UNCHANGED <<accounts, requests, seq, txs, entries, loanApps, loanHistory,
                 sipApps, inflight>>

----------------------------------------------------------------------------
(* Cash deposits *)

deposit_rows_one_sided(tx_id, acc, amt) ==
  << LedgerEntry(tx_id, acc, NoGL, "CR", amt) >>

\* DR the cash vault, CR the account
deposit_rows(tx_id, acc, amt) ==
  << LedgerEntry(tx_id, NULL, GL_CASH_VAULT, "DR", amt),
     LedgerEntry(tx_id, acc, NoGL, "CR", amt) >>

ops_post_deposit_check(u, acc, raw) ==
  IF ~_has_role(u) THEN E_FORBIDDEN
  ELSE IF ~raw.ok THEN E_INVALID_AMOUNT
  ELSE IF raw.v <= 0 THEN E_AMOUNT_POSITIVE
  ELSE IF acc = NULL THEN E_ACC_NOT_FOUND
  ELSE IF accounts[acc].status # "ACTIVE" THEN E_ACC_NOT_ACTIVE
  ELSE OK

\* the deposit both teller handlers post once their checks pass
PostDeposit(op, u, acc, amt) ==
  LET tx_id == Len(txs) + 1
      es == entries \o deposit_rows(tx_id, acc, amt)
  IN /\ Len(txs) < MaxTx
     /\ txs' = Append(txs, Transaction("DEPOSIT", u))
     /\ entries' = es
     /\ last' = Response(op, OK, acc, BalanceIn(es, acc))
     /\ UNCHANGED <<accounts, requests, seq, ib, loanApps, loanHistory, sipApps, inflight>>

ops_post_deposit_return_adds_tx_first(code, u, acc, raw) ==
  IF code = OK
    THEN PostDeposit("ops_post_deposit", u, acc, raw.v)
    ELSE /\ Len(txs) < MaxTx
         /\ txs' = Append(txs, Transaction("DEPOSIT", u))
         /\ last' = Reject("ops_post_deposit", code)
         /\ UNCHANGED <<accounts, requests, seq, entries, ib, loanApps, loanHistory,
                        sipApps, inflight>>

ops_post_deposit_return(code, u, acc, raw) ==
  IF code = OK
    THEN PostDeposit("ops_post_deposit", u, acc, raw.v)
    ELSE /\ last' = Reject("ops_post_deposit", code)
         /\ UNCHANGED <<db, inflight>>

\* by account id; the amount is read only for a teller, the account looked up
\* only for a valid amount
ops_post_deposit ==
  /\ SomeIdle
  /\ \E u \in Users :
       LET c == ops_post_deposit_check(u, NULL, Unparsable)
       IN IF c # E_INVALID_AMOUNT
            THEN ops_post_deposit_return(c, u, NULL, Unparsable)
            ELSE \E raw \in RawAmounts :
              LET c0 == ops_post_deposit_check(u, NULL, raw)
              IN IF c0 # E_ACC_NOT_FOUND
                   THEN ops_post_deposit_return(c0, u, NULL, raw)
                   ELSE \E acc \in Named :
                          ops_post_deposit_return(
                            ops_post_deposit_check(u, acc, raw), u, acc, raw)

\* has_no: whether the request carries a non-empty account_no
ops_accept_cash_deposit_check(u, has_no, acc, raw) ==
  IF ~_has_role(u) THEN E_FORBIDDEN
  ELSE IF ~raw.ok THEN E_INVALID_AMOUNT
  ELSE IF raw.v <= 0 THEN E_AMOUNT_POSITIVE
  ELSE IF ~has_no THEN E_ACC_NO_REQUIRED
  ELSE IF acc = NULL THEN E_ACC_NOT_FOUND
  ELSE IF accounts[acc].status # "ACTIVE" THEN E_ACC_NOT_ACTIVE
  ELSE OK

ops_accept_cash_deposit_return(code, u, acc, raw) ==
  IF code = OK
    THEN PostDeposit("ops_accept_cash_deposit", u, acc, raw.v)
    ELSE /\ last' = Reject("ops_accept_cash_deposit", code)
         /\ UNCHANGED <<db, inflight>>

\* by account number (teller flow)
ops_accept_cash_deposit ==
  /\ SomeIdle
  /\ \E u \in Users :
       LET c == ops_accept_cash_deposit_check(u, FALSE, NULL, Unparsable)
       IN IF c # E_INVALID_AMOUNT
            THEN ops_accept_cash_deposit_return(c, u, NULL, Unparsable)
            ELSE \E raw \in RawAmounts :
              LET c0 == ops_accept_cash_deposit_check(u, FALSE, NULL, raw)
              IN IF c0 # E_ACC_NO_REQUIRED
                   THEN ops_accept_cash_deposit_return(c0, u, NULL, raw)
                   ELSE \E has_no \in BOOLEAN, acc \in Named :
                          /\ ~has_no => acc = NULL
                          /\ ops_accept_cash_deposit_return(
                               ops_accept_cash_deposit_check(u, has_no, acc, raw),
                               u, acc, raw)

----------------------------------------------------------------------------
(* The session of a posting handler, step by step: db.session.add(tx),      *)
(* db.session.flush(), db.session.add(LedgerEntry) twice, and               *)
(* db.session.commit(), with a failure possible in between                  *)

session_flush_autocommit(table, row) == Append(table, row)

\* the committed table after db.session.flush() has INSERTed row: as before,
\* the row stays inside the open database transaction until the commit
session_flush(table, row) == table

\* ops_post_deposit up to its checks (lines 527-542)
ops_post_deposit_begin ==
  /\ SomeIdle
  /\ \E u \in Users, raw \in RawAmounts, acc \in Named :
       LET code == ops_post_deposit_check(u, acc, raw)
       IN IF code = OK
            THEN /\ Room
                 /\ inflight' = [inflight EXCEPT ![FreeWorker] =
                      [Idle EXCEPT !.pc = "ops_post_deposit", !.caller = u,
                                   !.dst = acc, !.amt = raw.v]]
                 /\ UNCHANGED <<db, last>>
            ELSE /\ last' = Reject("ops_post_deposit", code)
                 /\ UNCHANGED <<db, inflight>>

\* lines 543-545 and 788-789: the Transaction row, added and flushed
session_add_tx(w) ==
  /\ inflight[w].pc \in {"ib_transfer", "ops_post_deposit"}
  /\ inflight[w].stage = ""
  /\ txs' = session_flush(txs,
       Transaction(IF inflight[w].pc = "ib_transfer" THEN "TRANSFER" ELSE "DEPOSIT",
                   inflight[w].caller))
  /\ inflight' = [inflight EXCEPT ![w].stage = "flushed"]
  /\ UNCHANGED <<accounts, requests, seq, entries, ib, loanApps, loanHistory, sipApps, last>>

\* lines 546-547 and 790-791: the two entries, added to the session
session_add_entries(w) ==
  /\ inflight[w].stage = "flushed"
  /\ inflight' = [inflight EXCEPT ![w].stage = "added"]
  /\ UNCHANGED <<db, last>>

\* line 548 and lines 549-557 of ops_post_deposit: the commit, and the balance
\* read back for the response
ops_post_deposit_commit(w) ==
  /\ inflight[w].pc = "ops_post_deposit"
  /\ LET r == inflight[w]
         tx_id == Len(txs) + 1
         es == entries \o deposit_rows(tx_id, r.dst, r.amt)
     IN /\ txs' = Append(txs, Transaction("DEPOSIT", r.caller))
        /\ entries' = es
        /\ last' = Response("ops_post_deposit", OK, r.dst, BalanceIn(es, r.dst))
  /\ inflight' = [inflight EXCEPT ![w] = Idle]
  /\ UNCHANGED <<accounts, requests, seq, ib, loanApps, loanHistory, sipApps>>

\* lines 548 and 792: db.session.commit() of a session that holds the
\* Transaction row and its entries
session_commit(w) ==
  /\ inflight[w].stage = "added"
  /\ \/ ib_transfer_commit(w)
     \/ ops_post_deposit_commit(w)

\* the request dies after the Transaction row was created and before the
\* commit: the session is removed with the request, its database transaction
\* rolled back
session_fail(w) ==
  /\ inflight[w].stage \in {"flushed", "added"}
  /\ last' = Reject(inflight[w].pc, E_SERVER_ERROR)
  /\ inflight' = [inflight EXCEPT ![w] = Idle]
  /\ UNCHANGED db

----------------------------------------------------------------------------
(* ops_approve_request *)

RequestIds == 1 .. Len(requests)

\* lines 410-429
ops_approve_request_check(u, req, raw) ==
  IF ~_has_role(u) THEN E_FORBIDDEN
  ELSE IF ~raw.ok THEN E_INIT_INVALID
  ELSE IF raw.v < 0 THEN E_INIT_NEGATIVE
  ELSE IF req = NULL THEN E_REQ_NOT_FOUND
  ELSE IF requests[req].status # "PENDING" THEN E_REQ_ALREADY
  ELSE OK

next_serial_not_advanced(serial) == serial

\* seq.next_serial = serial + 1
next_serial(serial) == serial + 1

ops_approve_request_return(code, u, req, raw) ==
  IF code = OK
    THEN /\ Len(accounts) + Cardinality(Approving) < MaxAccounts
         /\ raw.v > 0 => Room
         /\ LET b == requests[req].branch_id
            IN inflight' = [inflight EXCEPT ![FreeWorker] =
                 [Idle EXCEPT !.pc = "ops_approve_request", !.caller = u, !.req = req,
                              !.amt = raw.v,
                              !.has_seq = seq[b] # NULL,
                              !.serial = IF seq[b] # NULL THEN seq[b] ELSE START_SERIAL]]
         /\ UNCHANGED <<db, last>>
    ELSE /\ last' = Reject("ops_approve_request", code)
         /\ UNCHANGED <<db, inflight>>

\* lines 410-435: the checks and the read of the branch's sequence row (a new
\* row, not yet flushed, when the branch has none)
ops_approve_request_begin ==
  /\ SomeIdle
  /\ \E u \in Users :
       LET c == ops_approve_request_check(u, NULL, Unparsable)
       IN IF c # E_INIT_INVALID
            THEN ops_approve_request_return(c, u, NULL, Unparsable)
            ELSE \E raw \in RawAmounts :
              LET c0 == ops_approve_request_check(u, NULL, raw)
              IN IF c0 # E_REQ_NOT_FOUND
                   THEN ops_approve_request_return(c0, u, NULL, raw)
                   ELSE \E req \in {NULL} \cup RequestIds :
                          ops_approve_request_return(
                            ops_approve_request_check(u, req, raw), u, req, raw)

\* lines 432-454, the flushes and the commit. The INSERT of a sequence row for
\* a branch that has one by now, and the INSERT of an account whose number is
\* taken by now, break a unique key: the IntegrityError is not caught, the
\* request fails and its transaction is rolled back. (A writer that meets
\* another worker's uncommitted row waits for that worker's commit, so the
\* flushes and the commit are one step.)
ops_approve_request_commit(w) ==
  /\ inflight[w].pc = "ops_approve_request"
  /\ LET r == inflight[w]
         b == requests[r.req].branch_id
         account_no == AccountNo(b, r.serial)
         acc_id == Len(accounts) + 1
         tx_id == Len(txs) + 1
     IN IF (~r.has_seq /\ seq[b] # NULL) \/ AccountByNo(account_no) # NULL
          THEN /\ last' = Reject("ops_approve_request", E_INTEGRITY)
               /\ UNCHANGED db
          ELSE /\ seq' = [seq EXCEPT ![b] = next_serial(r.serial)]
               /\ accounts' = Append(accounts,
                    Account(requests[r.req].customer_id, b, r.serial, "ACTIVE"))
               /\ IF r.amt > 0
                    THEN /\ txs' = Append(txs, Transaction("DEPOSIT", r.caller))
                         /\ entries' = entries \o deposit_rows(tx_id, acc_id, r.amt)
                    ELSE UNCHANGED <<txs, entries>>
               /\ requests' = [requests EXCEPT ![r.req].status = "APPROVED"]
               /\ last' = Response("ops_approve_request", OK, NULL, 0)
               /\ UNCHANGED <<ib, loanApps, loanHistory, sipApps>>
  /\ inflight' = [inflight EXCEPT ![w] = Idle]

\* lines 463-474 of ops_decline_request: the early returns; has_remark:
\* whether the request carries a non-empty remark
ops_decline_request_check(u, has_remark, req) ==
  IF ~_has_role(u) THEN E_FORBIDDEN
  ELSE IF ~has_remark THEN E_REMARK_DECLINE
  ELSE IF req = NULL THEN E_REQ_NOT_FOUND
  ELSE IF requests[req].status # "PENDING" THEN E_REQ_ALREADY
  ELSE OK

\* lines 463-474: the checks, the read of the request's status among them
ops_decline_request_begin ==
  /\ SomeIdle
  /\ \E u \in Users, has_remark \in BOOLEAN, req \in {NULL} \cup RequestIds :
       LET code == ops_decline_request_check(u, has_remark, req)
       IN IF code = OK
            THEN /\ inflight' = [inflight EXCEPT ![FreeWorker] =
                      [Idle EXCEPT !.pc = "ops_decline_request", !.caller = u,
                                   !.req = req]]
                 /\ UNCHANGED <<db, last>>
            ELSE /\ last' = Reject("ops_decline_request", code)
                 /\ UNCHANGED <<db, inflight>>

\* lines 475-478: ar.status = REJECTED and the commit, an UPDATE of the row by
\* its key whatever its status is by now
ops_decline_request_commit(w) ==
  /\ inflight[w].pc = "ops_decline_request"
  /\ requests' = [requests EXCEPT ![inflight[w].req].status = "REJECTED"]
  /\ last' = Response("ops_decline_request", OK, NULL, 0)
  /\ inflight' = [inflight EXCEPT ![w] = Idle]
  /\ UNCHANGED <<accounts, seq, txs, entries, ib, loanApps, loanHistory, sipApps>>

----------------------------------------------------------------------------
(* Loans *)

LoanIds == 1 .. Len(loanApps)

\* Decimal(str(disburse_amount_raw or app.amount)): the application's amount
\* when the request carries none
disburse_amount(app, given, raw) ==
  IF given THEN raw ELSE [ok |-> TRUE, v |-> loanApps[app].amount]

ops_loan_disburse_check_any_status(u, app, acc, given, raw) ==
  IF ~_has_role(u) THEN E_ABORT_403
  ELSE IF app = NULL THEN E_LOAN_NOT_FOUND
  ELSE IF acc = NULL THEN E_ACC_NOT_FOUND
  ELSE IF accounts[acc].status # "ACTIVE" THEN E_ACC_NOT_ACTIVE
  ELSE IF ~disburse_amount(app, given, raw).ok THEN E_DISBURSE_INVALID
  ELSE IF disburse_amount(app, given, raw).v <= 0 THEN E_DISBURSE_POSITIVE
  ELSE OK

\* lines 1096-1133
ops_loan_disburse_check(u, app, acc, given, raw) ==
  IF ~_has_role(u) THEN E_ABORT_403
  ELSE IF app = NULL THEN E_LOAN_NOT_FOUND
  ELSE IF loanApps[app].status # "APPROVED" THEN E_LOAN_NOT_APPROVED
  ELSE IF acc = NULL THEN E_ACC_NOT_FOUND
  ELSE IF accounts[acc].status # "ACTIVE" THEN E_ACC_NOT_ACTIVE
  ELSE IF ~disburse_amount(app, given, raw).ok THEN E_DISBURSE_INVALID
  ELSE IF disburse_amount(app, given, raw).v <= 0 THEN E_DISBURSE_POSITIVE
  ELSE OK

disbursal_rows_unfunded(tx_id, acc, amt) ==
  << LedgerEntry(tx_id, NULL, GL_BANK_LOAN, "DR", 0),
     LedgerEntry(tx_id, acc, NoGL, "CR", amt) >>

\* DR the bank's loan funding, CR the account
disbursal_rows(tx_id, acc, amt) ==
  << LedgerEntry(tx_id, NULL, GL_BANK_LOAN, "DR", amt),
     LedgerEntry(tx_id, acc, NoGL, "CR", amt) >>

ops_loan_disburse_return(code, u, app, acc, given, raw) ==
  IF code = OK
    THEN LET tx_id == Len(txs) + 1
             amt == disburse_amount(app, given, raw).v
         IN /\ Len(txs) < MaxTx
            /\ txs' = Append(txs, Transaction("LOAN_DISBURSAL", u))
            /\ entries' = entries \o disbursal_rows(tx_id, acc, amt)
            /\ loanHistory' = Append(loanHistory,
                 LoanAppHistory(app, "DISBURSED", accounts[acc].account_no))
            /\ last' = Response("ops_loan_disburse", OK, NULL, 0)
            /\ UNCHANGED <<accounts, requests, seq, ib, loanApps, sipApps, inflight>>
    ELSE /\ last' = Reject("ops_loan_disburse", code)
         /\ UNCHANGED <<db, inflight>>

\* lines 1095-1161; the account and the amount are read only for an approved
\* application (rate_pa and term_months, parsed before, are well formed)
ops_loan_disburse ==
  /\ SomeIdle
  /\ \E u \in Users, app \in {NULL} \cup LoanIds :
       LET c == ops_loan_disburse_check(u, app, NULL, FALSE, Unparsable)
       IN IF c # E_ACC_NOT_FOUND
            THEN ops_loan_disburse_return(c, u, app, NULL, FALSE, Unparsable)
            ELSE \E acc \in Named, given \in BOOLEAN, raw \in RawAmounts :
                   /\ ~given => raw = Unparsable
                   /\ ops_loan_disburse_return(
                        ops_loan_disburse_check(u, app, acc, given, raw),
                        u, app, acc, given, raw)

\* ops_loan_approve and ops_loan_decline: the early returns; decline asks for
\* a remark first
ops_loan_decide_check(u, has_remark, app) ==
  IF ~_has_role(u) THEN E_ABORT_403
  ELSE IF ~has_remark THEN E_REMARK_REQUIRED
  ELSE IF app = NULL THEN E_LOAN_NOT_FOUND
  ELSE IF loanApps[app].status # "PENDING" THEN E_LOAN_ALREADY
  ELSE OK

\* app.status = ...; the LoanAppHistory row; commit
ops_loan_decide_return(op, code, app, status) ==
  IF code = OK
    THEN /\ loanApps' = [loanApps EXCEPT ![app].status = status]
         /\ loanHistory' = Append(loanHistory, LoanAppHistory(app, status, NoRemark))
         /\ last' = Response(op, OK, NULL, 0)
         /\ UNCHANGED <<accounts, requests, seq, txs, entries, ib, sipApps, inflight>>
    ELSE /\ last' = Reject(op, code)
         /\ UNCHANGED <<db, inflight>>

\* the remark is optional here
ops_loan_approve ==
  /\ SomeIdle
  /\ \E u \in Users, app \in {NULL} \cup LoanIds :
       ops_loan_decide_return("ops_loan_approve",
         ops_loan_decide_check(u, TRUE, app), app, "APPROVED")

ops_loan_decline ==
  /\ SomeIdle
  /\ \E u \in Users, has_remark \in BOOLEAN, app \in {NULL} \cup LoanIds :
       ops_loan_decide_return("ops_loan_decline",
         ops_loan_decide_check(u, has_remark, app), app, "REJECTED")

----------------------------------------------------------------------------
(* SIP *)

SipIds == 1 .. Len(sipApps)

ops_sip_process_check_ignores_balance(u, app) ==
  IF ~_has_role(u) THEN E_ABORT_403
  ELSE IF app = NULL THEN E_SIP_NOT_FOUND
  ELSE IF ~sipApps[app].is_active THEN E_SIP_NOT_ACTIVE
  ELSE IF AccountById(sipApps[app].account_id) = NULL
          \/ accounts[sipApps[app].account_id].status # "ACTIVE" THEN E_ACC_NOT_ACTIVE
  ELSE OK

\* lines 1811-1832
ops_sip_process_check(u, app) ==
  IF ~_has_role(u) THEN E_ABORT_403
  ELSE IF app = NULL THEN E_SIP_NOT_FOUND
  ELSE IF ~sipApps[app].is_active THEN E_SIP_NOT_ACTIVE
  ELSE IF AccountById(sipApps[app].account_id) = NULL
          \/ accounts[sipApps[app].account_id].status # "ACTIVE" THEN E_ACC_NOT_ACTIVE
  ELSE IF Balance(sipApps[app].account_id) < sipApps[app].monthly_amount THEN E_SIP_FUNDS
  ELSE OK

sip_rows_credit_names_account(tx_id, acc, amt) ==
  << LedgerEntry(tx_id, acc, NoGL, "DR", amt),
     LedgerEntry(tx_id, acc, GL_INVESTMENT, "CR", amt) >>

\* DR the account, CR the investment pool
sip_rows(tx_id, acc, amt) ==
  << LedgerEntry(tx_id, acc, NoGL, "DR", amt),
     LedgerEntry(tx_id, NULL, GL_INVESTMENT, "CR", amt) >>

\* lines 1811-1832: the checks, the balance among them
ops_sip_process_begin ==
  /\ SomeIdle
  /\ \E u \in Users, app \in {NULL} \cup SipIds :
       LET code == ops_sip_process_check(u, app)
       IN IF code = OK
            THEN /\ Room
                 /\ inflight' = [inflight EXCEPT ![FreeWorker] =
                      [Idle EXCEPT !.pc = "ops_sip_process", !.caller = u, !.req = app,
                                   !.src = sipApps[app].account_id,
                                   !.amt = sipApps[app].monthly_amount]]
                 /\ UNCHANGED <<db, last>>
            ELSE /\ last' = Reject("ops_sip_process", code)
                 /\ UNCHANGED <<db, inflight>>

ops_sip_process_commit_nets_in_place(w) ==
  /\ inflight[w].pc = "ops_sip_process"
  /\ LET r == inflight[w]
         i == CHOOSE k \in 1 .. Len(entries) :
                entries[k].account_id = r.src /\ entries[k].dr_cr = "CR"
     IN /\ txs' = Append(txs, Transaction("TRANSFER", r.caller))
        /\ entries' = [entries EXCEPT ![i].amount = @ - Numeric2(r.amt)]
        /\ last' = Response("ops_sip_process", OK, NULL, 0)
  /\ inflight' = [inflight EXCEPT ![w] = Idle]
  /\ UNCHANGED <<accounts, requests, seq, ib, loanApps, loanHistory, sipApps>>

\* lines 1852-1867: the Transaction (of type TRANSFER) and its two entries
ops_sip_process_commit(w) ==
  /\ inflight[w].pc = "ops_sip_process"
  /\ LET r == inflight[w]
         tx_id == Len(txs) + 1
     IN /\ txs' = Append(txs, Transaction("TRANSFER", r.caller))
        /\ entries' = entries \o sip_rows(tx_id, r.src, r.amt)
        /\ last' = Response("ops_sip_process", OK, NULL, 0)
  /\ inflight' = [inflight EXCEPT ![w] = Idle]
  /\ UNCHANGED <<accounts, requests, seq, ib, loanApps, loanHistory, sipApps>>

----------------------------------------------------------------------------
(* account_transactions: the history of an account, a page at a time. The   *)
(* reader is a function of the ledger it finds; the rows it reads carry     *)
(* their posting time, LedgerEntry.posted_at, next to the fields the        *)
(* posting handlers set.                                                    *)

\* a query argument: absent (or empty), text that does not parse, or a value
NoArg == [given |-> FALSE, ok |-> FALSE, v |-> 0]
BadArg == [given |-> TRUE, ok |-> FALSE, v |-> 0]
Arg(v) == [given |-> TRUE, ok |-> TRUE, v |-> v]

\* the limit arguments of a request
LimitArgs ==
  {NoArg, BadArg} \cup {Arg(n) : n \in ((0 - 1) .. 2) \cup {MAX_LIMIT, MAX_LIMIT + 1}}

\* the before arguments of a request
BeforeArgs == {NoArg, BadArg} \cup {Arg(t) : t \in 1 .. MaxTime + 1}

page_limit_unclamped(limit_raw) ==
  IF limit_raw.given /\ limit_raw.ok THEN limit_raw.v ELSE DEFAULT_LIMIT

\* lines 325-330: limit = int(limit_raw) if limit_raw else 20, 20 when int()
\* raises; limit = max(1, min(limit, 100))
page_limit(limit_raw) ==
  LET limit == IF limit_raw.given /\ limit_raw.ok THEN limit_raw.v ELSE DEFAULT_LIMIT
      capped == IF limit < MAX_LIMIT THEN limit ELSE MAX_LIMIT
  IN IF capped > 1 THEN capped ELSE 1

\* the row posted at time t
Stamped(row, t) ==
  [transaction_id |-> row.transaction_id, account_id |-> row.account_id,
   gl_code |-> row.gl_code, dr_cr |-> row.dr_cr, amount |-> row.amount,
   posted_at |-> t]

\* .filter(LedgerEntry.account_id == account_id) and, with a cursor,
\* .filter(LedgerEntry.posted_at < before_dt); the join finds the entry's
\* Transaction
history_filter(i, account_id, before_raw) ==
  /\ entries[i].transaction_id \in 1 .. Len(txs)
  /\ entries[i].account_id = account_id
  /\ before_raw.given => entries[i].posted_at < before_raw.v

\* desc(LedgerEntry.posted_at), desc(LedgerEntry.id): row i is listed before
\* row j
listed_before(i, j) ==
  \/ entries[i].posted_at > entries[j].posted_at
  \/ entries[i].posted_at = entries[j].posted_at /\ i > j

\* lines 340-346: rows = q.order_by(...).limit(limit).all(), as the ids of the
\* ledger rows: the filtered rows, each at the place the ORDER BY gives it
\* (after the rows listed before it), cut at the limit
history_rows(account_id, before_raw, limit_raw) ==
  LET found == {i \in 1 .. Len(entries) : history_filter(i, account_id, before_raw)}
      place == [i \in found |-> 1 + Cardinality({j \in found : listed_before(j, i)})]
      limit == page_limit(limit_raw)
      n == IF Cardinality(found) < limit THEN Cardinality(found) ELSE limit
  IN [k \in 1 .. n |-> CHOOSE i \in found : place[i] = k]

\* lines 348-366, _format_counterparty: the first sibling by id, on another
\* account or on a GL bucket; << is_acc, label, account_no, gl >>
NA == "N/A"
None == "None"

_format_counterparty(i) ==
  LET le == entries[i]
      sibs == {j \in 1 .. Len(entries) :
                /\ entries[j].transaction_id = le.transaction_id
                /\ \/ entries[j].account_id # NULL /\ entries[j].account_id # le.account_id
                   \/ entries[j].account_id = NULL /\ entries[j].gl_code # NoGL}
  IN IF sibs = {} THEN << FALSE, NA, None, None >>
     ELSE LET s == entries[CHOOSE j \in sibs : \A k \in sibs : j <= k]
          IN IF s.account_id # NULL
               THEN IF AccountById(s.account_id) # NULL
                      THEN << TRUE, accounts[s.account_id].account_no,
                              accounts[s.account_id].account_no, None >>
                      ELSE << TRUE, "Account", None, None >>
               ELSE << FALSE,
                       IF s.gl_code = GL_CASH_VAULT THEN "CASH" ELSE <<"GL:", s.gl_code>>,
                       None, s.gl_code >>

\* lines 370-397: the item of row i in the page of account acc
history_item(acc, i) ==
  LET le == entries[i]
      cp == _format_counterparty(i)
      this_acc_no == accounts[acc].account_no
  IN [posted_at |-> le.posted_at,
      type |-> txs[le.transaction_id].type,
      from |-> IF le.dr_cr = "CR" THEN cp[2] ELSE this_acc_no,
      to |-> IF le.dr_cr = "CR" THEN this_acc_no ELSE cp[2],
      from_account_no |-> IF le.dr_cr = "CR" THEN (IF cp[1] THEN cp[3] ELSE None)
                          ELSE this_acc_no,
      to_account_no |-> IF le.dr_cr = "CR" THEN this_acc_no
                        ELSE (IF cp[1] THEN cp[3] ELSE None),
      dr_cr |-> le.dr_cr,
      amount |-> le.amount]

\* lines 369 and 398-401: the posting time of the last row of the page in ISO
\* format, which is what a later request hands in as `before`; "" for an empty
\* page, which as `before` is no cursor
NoCursor == NoArg

next_before(rows) ==
  IF rows = << >> THEN NoCursor ELSE Arg(entries[rows[Len(rows)]].posted_at)

\* lines 320-339: the early returns
account_transactions_check(u, account_id, before_raw) ==
  IF \/ AccountById(account_id) = NULL
     \/ _get_customer(u) = NULL
     \/ accounts[account_id].customer_id # _get_customer(u) THEN E_ACC_NOT_FOUND
  ELSE IF before_raw.given /\ ~before_raw.ok THEN E_BEFORE_INVALID
  ELSE OK

\* the response: the rows read (by id), their items, and the cursor
HistoryResponse(code, account_id, rows) ==
  [op |-> "account_transactions", code |-> code, acc |-> account_id, bal |-> 0,
   rows |-> rows,
   items |-> [n \in 1 .. Len(rows) |-> history_item(account_id, rows[n])],
   next_before |-> next_before(rows)]

account_transactions_return(code, account_id, before_raw, limit_raw) ==
  /\ last' = IF code = OK
                THEN HistoryResponse(OK, account_id,
                       history_rows(account_id, before_raw, limit_raw))
                ELSE Reject("account_transactions", code)
  /\ UNCHANGED <<db, inflight>>

\* lines 319-402; the query arguments are read only for the owner of the
\* account
account_transactions ==
  \E u \in Users, account_id \in Named :
    LET c == account_transactions_check(u, account_id, NoArg)
    IN IF c # OK
         THEN account_transactions_return(c, account_id, NoArg, NoArg)
         ELSE \E before_raw \in BeforeArgs, limit_raw \in LimitArgs :
                account_transactions_return(
                  account_transactions_check(u, account_id, before_raw),
                  account_id, before_raw, limit_raw)

\* the transactions a ledger read by the history reader is made of: deposits,
\* transfers and a SIP instalment, of 0.01 each, posted at any of the times
HistoryPostings ==
  {"dep1", "t12", "t21", "sip1"} \X (1 .. MaxTime)

posting_type(kind) == IF kind = "dep1" THEN "DEPOSIT" ELSE "TRANSFER"

posting_rows(kind, tx_id) ==
  CASE kind = "dep1" -> deposit_rows(tx_id, 1, Cent)
    [] kind = "t12" -> ib_transfer_rows(OK, tx_id, 1, 2, Cent)
    [] kind = "t21" -> ib_transfer_rows(OK, tx_id, 2, 1, Cent)
    [] kind = "sip1" -> sip_rows(tx_id, 1, Cent)

\* the ledger rows of the postings ps, in their order: two rows each
LedgerOf(ps) ==
  [k \in 1 .. 2 * Len(ps) |->
     LET n == (k + 1) \div 2
     IN Stamped(posting_rows(ps[n][1], n)[2 - (k % 2)], ps[n][2])]

\* a long history: MAX_LIMIT + 1 deposits to account 1
LongHistory == [n \in 1 .. MAX_LIMIT + 1 |-> << "dep1", 1 + (n % MaxTime) >>]

\* the ledgers the reader is run on
HistoryLedgers ==
  UNION {[1 .. n -> HistoryPostings] : n \in 0 .. MaxTx} \cup {LongHistory}

\* the accounts of Init under a ledger of postings made since
InitHistory ==
  /\ accounts = << Account(1, 1, START_SERIAL, "ACTIVE"),
                   Account(2, 1, START_SERIAL + 1, "ACTIVE"),
                   Account(2, 1, START_SERIAL + 2, "FROZEN") >>
  /\ requests = << >>
  /\ seq = [b \in Branches |-> IF b = 1 THEN START_SERIAL + 3 ELSE NULL]
  /\ \E ps \in HistoryLedgers :
       /\ txs = [n \in 1 .. Len(ps) |-> Transaction(posting_type(ps[n][1]), "emp")]
       /\ entries = LedgerOf(ps)
  /\ ib = [i \in 1 .. MaxAccounts |-> IF i = 1 THEN bcrypt_hash(PinA) ELSE NoPin]
  /\ loanApps = << >>
  /\ loanHistory = << >>
  /\ sipApps = << >>
  /\ inflight = [w \in Workers |-> Idle]
  /\ last = Response("", "", NULL, 0)

NextHistory == account_transactions

SpecHistory == InitHistory /\ [][NextHistory]_vars

\* the table of ledger entries puts no bound on the entries of a transaction:
\* a transaction of one entry, and one split over the cash vault and two
\* accounts with either of the two siblings of the credit written first
SplitPostings ==
  {"lone", "gl_first", "acc_first", "dep1", "t12"} \X (1 .. MaxTime)

split_rows(kind, tx_id) ==
  CASE kind = "lone" -> << LedgerEntry(tx_id, 1, NoGL, "CR", Cent) >>
    [] kind = "gl_first" -> << LedgerEntry(tx_id, NULL, GL_CASH_VAULT, "DR", Cent),
                               LedgerEntry(tx_id, 2, NoGL, "DR", Cent),
                               LedgerEntry(tx_id, 1, NoGL, "CR", 2 * Cent) >>
    [] kind = "acc_first" -> << LedgerEntry(tx_id, 2, NoGL, "DR", Cent),
                                LedgerEntry(tx_id, NULL, GL_CASH_VAULT, "DR", Cent),
                                LedgerEntry(tx_id, 1, NoGL, "CR", 2 * Cent) >>
    [] OTHER -> posting_rows(kind, tx_id)

\* the ledger rows of transaction n of the postings ps
split_ledger_rows(ps, n) ==
  LET rows == split_rows(ps[n][1], n)
  IN [k \in 1 .. Len(rows) |-> Stamped(rows[k], ps[n][2])]

\* the ledgers of one or two such transactions
SplitLedgers == UNION {[1 .. n -> SplitPostings] : n \in 1 .. 2}

SplitLedgerOf(ps) ==
  IF Len(ps) = 1 THEN split_ledger_rows(ps, 1)
  ELSE split_ledger_rows(ps, 1) \o split_ledger_rows(ps, 2)

\* the accounts of InitHistory under a ledger the tables admit
InitHistorySplit ==
  /\ accounts = << Account(1, 1, START_SERIAL, "ACTIVE"),
                   Account(2, 1, START_SERIAL + 1, "ACTIVE"),
                   Account(2, 1, START_SERIAL + 2, "FROZEN") >>
  /\ requests = << >>
  /\ seq = [b \in Branches |-> IF b = 1 THEN START_SERIAL + 3 ELSE NULL]
  /\ \E ps \in SplitLedgers :
       /\ txs = [n \in 1 .. Len(ps) |->
                  Transaction(IF ps[n][1] \in {"lone", "dep1"} THEN "DEPOSIT"
                              ELSE "TRANSFER", "emp")]
       /\ entries = SplitLedgerOf(ps)
  /\ ib = [i \in 1 .. MaxAccounts |-> IF i = 1 THEN bcrypt_hash(PinA) ELSE NoPin]
  /\ loanApps = << >>
  /\ loanHistory = << >>
  /\ sipApps = << >>
  /\ inflight = [w \in Workers |-> Idle]
  /\ last = Response("", "", NULL, 0)

SpecHistorySplit == InitHistorySplit /\ [][NextHistory]_vars

----------------------------------------------------------------------------

NextTransfer ==
  \/ ib_transfer_begin
  \/ \E w \in Workers : ib_transfer_commit(w)
  \/ ops_post_deposit

SpecTransfer == Init /\ [][NextTransfer]_vars

NextApprove ==
  \/ ops_approve_request_begin
  \/ \E w \in Workers : ops_approve_request_commit(w)

SpecApprove == Init /\ [][NextApprove]_vars

\* a step of a request that is not turned away: it reaches its posting, or
\* changes the database
Served == <<db, inflight>>' # <<db, inflight>>

\* an approval on its way carries an initial deposit
WithDeposit ==
  \A w \in Workers : inflight'[w].pc = "ops_approve_request" => inflight'[w].amt > 0

\* account requests approved and declined, any two of the requests of the
\* staff overlapping
NextRequests ==
  \/ ops_approve_request_begin /\ WithDeposit
  \/ \E w \in Workers : ops_approve_request_commit(w)
  \/ ops_decline_request_begin
  \/ \E w \in Workers : ops_decline_request_commit(w)

SpecRequests == Init /\ [][NextRequests]_vars

\* approvals one after the other: a request is taken up only when no approval
\* is under way
NextApproveSeq ==
  \/ ops_approve_request_begin /\ Approving = {}
  \/ \E w \in Workers : ops_approve_request_commit(w)

SpecApproveSeq == Init /\ [][NextApproveSeq]_vars

\* deposits and transfers with the steps of their sessions told apart, any two
\* of them overlapping
NextPost ==
  \/ ops_post_deposit_begin
  \/ ib_transfer_begin
  \/ \E w \in Workers : session_add_tx(w)
  \/ \E w \in Workers : session_add_entries(w)
  \/ \E w \in Workers : session_commit(w)
  \/ \E w \in Workers : session_fail(w)

SpecPost == Init /\ [][NextPost]_vars

\* the loan desk: applications decided and disbursed
NextLoan ==
  \/ ops_loan_approve
  \/ ops_loan_decline
  \/ ops_loan_disburse

SpecLoan == Init /\ [][NextLoan]_vars

\* no request is under way
AllIdle == \A w \in Workers : inflight[w].pc = "idle"

\* the teller desk: the posting requests of the staff, turned away or not, one
\* after the other
NextDesk ==
  \/ ops_approve_request_begin /\ AllIdle /\ WithDeposit
  \/ \E w \in Workers : ops_approve_request_commit(w)
  \/ ops_post_deposit /\ AllIdle
  \/ ops_accept_cash_deposit /\ AllIdle
  \/ ops_loan_disburse /\ AllIdle
  \/ ops_sip_process_begin /\ AllIdle
  \/ \E w \in Workers : ops_sip_process_commit(w)

SpecDesk == Init /\ [][NextDesk]_vars

\* internet banking: the credential of an account set, changed and removed,
\* and the transfers it gates
NextIB ==
  \/ ib_activate
  \/ ib_change_pin
  \/ ib_deactivate
  \/ ib_transfer_begin
  \/ \E w \in Workers : ib_transfer_commit(w)

SpecIB == Init /\ [][NextIB]_vars

\* SIP instalments and transfers, any two of them overlapping
NextSipTransfer ==
  \/ ops_sip_process_begin
  \/ \E w \in Workers : ops_sip_process_commit(w)
  \/ ib_transfer_begin
  \/ \E w \in Workers : ib_transfer_commit(w)

SpecSipTransfer == Init /\ [][NextSipTransfer]_vars

\* the requests that post to the ledger, one after the other: a request is
\* taken up only when none is under way
NextSequential ==
  \/ ops_approve_request_begin /\ AllIdle /\ Served /\ WithDeposit
  \/ \E w \in Workers : ops_approve_request_commit(w)
  \/ ops_post_deposit /\ AllIdle /\ Served
  \/ ops_accept_cash_deposit /\ AllIdle /\ Served
  \/ ib_transfer_begin /\ AllIdle /\ Served
  \/ \E w \in Workers : ib_transfer_commit(w)
  \/ ops_loan_disburse /\ AllIdle /\ Served
  \/ ops_sip_process_begin /\ AllIdle /\ Served
  \/ \E w \in Workers : ops_sip_process_commit(w)

SpecSequential == Init /\ [][NextSequential]_vars

\* the ledger under the requests that post to it, any two of them overlapping
Next ==
  \/ ops_approve_request_begin /\ Served /\ WithDeposit
  \/ \E w \in Workers : ops_approve_request_commit(w)
  \/ ops_post_deposit /\ Served
  \/ ops_accept_cash_deposit /\ Served
  \/ ib_transfer_begin /\ Served
  \/ \E w \in Workers : ib_transfer_commit(w)
  \/ ops_loan_disburse /\ Served
  \/ ops_sip_process_begin /\ Served
  \/ \E w \in Workers : ops_sip_process_commit(w)

Spec == Init /\ [][Next]_vars

----------------------------------------------------------------------------
(* The ledger, read per transaction *)

\* the ledger rows of the transactions with an id below tx_id
EntriesBefore(tx_id) == SelectSeq(entries, LAMBDA e : e.transaction_id < tx_id)

\* transaction tx_id is a transfer that debits account x by amount a
Debits(tx_id, x, a) ==
  /\ txs[tx_id].type = "TRANSFER"
  /\ \E i \in 1 .. Len(entries) :
       /\ entries[i].transaction_id = tx_id
       /\ entries[i].account_id = x
       /\ entries[i].dr_cr = "DR"
       /\ entries[i].amount = a

----------------------------------------------------------------------------
(* Concurrency *)

\* C1: of two transfers of the same amount A from an account whose balance is
\* exactly A, never both are posted: the ledger never holds two consecutive
\* TRANSFER transactions that each debit account x by A where the balance of x
\* before the first of them was A (the second would overdraw x).
C1_NeverBothSucceed ==
  \A t \in 1 .. Len(txs) - 1 : \A x \in AccountIds : \A a \in 1 .. MaxAmount :
    ~ /\ Debits(t, x, a)
      /\ Debits(t + 1, x, a)
      /\ BalanceIn(EntriesBefore(t), x) = a

\* C2: two approvals of different requests of the same branch that are under
\* way at the same time never hold the same serial.
C2_DistinctSerials ==
  \A w \in Workers, v \in Workers :
    /\ w # v
    /\ inflight[w].pc = "ops_approve_request"
    /\ inflight[v].pc = "ops_approve_request"
    /\ inflight[w].req # inflight[v].req
    /\ requests[inflight[w].req].branch_id = requests[inflight[v].req].branch_id
    => inflight[w].serial # inflight[v].serial

----------------------------------------------------------------------------
(* Ledger invariants *)

\* the sum of the amounts of the rows of es that belong to transaction tx_id
\* and are on side dr_cr
RECURSIVE SideSum(_, _, _)
SideSum(es, tx_id, dr_cr) ==
  IF es = <<>> THEN 0
  ELSE (IF Head(es).transaction_id = tx_id /\ Head(es).dr_cr = dr_cr
          THEN Head(es).amount ELSE 0)
       + SideSum(Tail(es), tx_id, dr_cr)

\* C3: double entry: for every transaction in the store the sum of its DR
\* entry amounts equals the sum of its CR entry amounts, after every post of
\* every posting handler and after overlapping posts.
C3_DoubleEntry ==
  \A t \in 1 .. Len(txs) : SideSum(entries, t, "DR") = SideSum(entries, t, "CR")

\* the ledger is full, two requests have posted since the start, both for an
\* amount above 0, and a loan disbursal is one of them
C3_Witness ==
  /\ Len(txs) = MaxTx
  /\ \A t \in 2 .. Len(txs) : SideSum(entries, t, "DR") > 0
  /\ \E t \in 2 .. Len(txs) : txs[t].type = "LOAN_DISBURSAL"
  /\ \E t \in 2 .. Len(txs) : txs[t].type = "TRANSFER"

\* the balance of an account recomputed from the raw rows: one signed pass
\* over the first n rows of the ledger
RECURSIVE SignedSum(_, _)
SignedSum(n, account_id) ==
  IF n = 0 THEN 0
  ELSE SignedSum(n - 1, account_id)
       + (IF entries[n].account_id # account_id THEN 0
          ELSE IF entries[n].dr_cr = "CR" THEN entries[n].amount
          ELSE 0 - entries[n].amount)

HasEntries(account_id) ==
  \E i \in 1 .. Len(entries) : entries[i].account_id = account_id

\* C4: for every account the balance the handlers compute equals the sum of
\* the account's CR entry amounts minus the sum of its DR entry amounts,
\* recomputed independently from the raw ledger rows; an account without
\* entries has balance 0.
C4_BalanceDerived ==
  \A a \in AccountIds :
    /\ Balance(a) = SignedSum(Len(entries), a)
    /\ ~HasEntries(a) => Balance(a) = 0

\* an account that has been credited and debited and keeps a balance above 0,
\* next to an account without entries
C4_Witness ==
  /\ \E a \in AccountIds :
       /\ SumAmount(entries, a, "DR") > 0
       /\ SumAmount(entries, a, "CR") > SumAmount(entries, a, "DR")
       /\ Balance(a) = SumAmount(entries, a, "CR") - SumAmount(entries, a, "DR")
  /\ \E a \in AccountIds : ~HasEntries(a)

----------------------------------------------------------------------------
(* Transfers *)

\* a step in which ib_transfer returns one of its rejections
TransferRejected ==
  /\ inflight' = inflight
  /\ last'.op = "ib_transfer"
  /\ last'.code # OK

\* a step in which worker w posts its transfer
TransferPosted(w) ==
  /\ inflight[w].pc = "ib_transfer"
  /\ inflight'[w].pc = "idle"

\* C5: a rejected ib_transfer has no side effect: the step that returns the
\* rejection, whichever check fails, creates no transaction and no ledger
\* entry and leaves the balance of every account unchanged.
C5_RejectedTransferNoEffect ==
  [][TransferRejected =>
       /\ txs' = txs
       /\ entries' = entries
       /\ \A a \in AccountIds : BalanceIn(entries', a) = BalanceIn(entries, a)]_vars

\* a transfer has been rejected at the funds check, after a transaction was
\* posted
C5_Witness ==
  /\ last.op = "ib_transfer"
  /\ last.code = E_FUNDS
  /\ Len(txs) > 1

\* C6: a successful ib_transfer of amount a from X to Y creates exactly one
\* transaction, of type TRANSFER and status POSTED, and exactly two entries,
\* DR X for a and CR Y for a; the balance of X decreases by exactly a, the
\* balance of Y increases by exactly a, every other balance is unchanged.
C6_TransferMovesAmount ==
  [][\A w \in Workers : TransferPosted(w) =>
       LET r == inflight[w]
           tx_id == Len(txs) + 1
       IN /\ txs' = Append(txs, [type |-> "TRANSFER", status |-> "POSTED",
                                 created_by |-> r.caller])
          /\ entries' = entries \o
               << [transaction_id |-> tx_id, account_id |-> r.src, gl_code |-> NoGL,
                   dr_cr |-> "DR", amount |-> r.amt],
                  [transaction_id |-> tx_id, account_id |-> r.dst, gl_code |-> NoGL,
                   dr_cr |-> "CR", amount |-> r.amt] >>
          /\ \A a \in AccountIds :
               BalanceIn(entries', a) =
                 BalanceIn(entries, a)
                   + (IF a = r.dst THEN r.amt ELSE 0) - (IF a = r.src THEN r.amt ELSE 0)]_vars

\* the checks of the transfer protocol in the order of their precedence:
\* 1 existence, 2 distinctness, 3 status, 4 ownership, 5 amount validity,
\* 6 PIN, 7 funds; whether the request violates check k (asked only of a
\* request that violates no earlier check)
Violates(k, u, f, t, raw, pin) ==
  CASE k = 1 -> f = NULL \/ t = NULL
    [] k = 2 -> f = t
    [] k = 3 -> accounts[f].status # "ACTIVE" \/ accounts[t].status # "ACTIVE"
    [] k = 4 -> _get_customer(u) = NULL \/ accounts[f].customer_id # _get_customer(u)
    [] k = 5 -> ~raw.ok \/ raw.v <= 0
    [] k = 6 -> \/ ~PinWellFormed(pin)
                \/ ib[f] = NoPin
                \/ ib[f] # bcrypt_hash(pin)
    [] k = 7 -> BalanceIn(entries, f) < raw.v

\* the earliest check from k on that the request violates, 8 when none
RECURSIVE Earliest(_, _, _, _, _, _)
Earliest(k, u, f, t, raw, pin) ==
  IF k > 7 THEN 8
  ELSE IF Violates(k, u, f, t, raw, pin) THEN k
  ELSE Earliest(k + 1, u, f, t, raw, pin)

\* the check a response belongs to: 8 for a success, 0 for a message of none
\* of the seven checks
Stage(code) ==
  CASE code = E_NOT_FOUND -> 1
    [] code = E_SAME -> 2
    [] code = E_NOT_ACTIVE -> 3
    [] code = E_NOT_ALLOWED -> 4
    [] code \in {E_INVALID_AMOUNT, E_AMOUNT_POSITIVE} -> 5
    [] code \in {E_PIN_FORMAT, E_PIN} -> 6
    [] code = E_FUNDS -> 7
    [] code = OK -> 8
    [] OTHER -> 0

\* C7 as stated: for every caller and every request, ib_transfer reports the
\* error of the earliest check the request violates in the order existence,
\* distinctness, status, ownership, amount validity, PIN, funds.
C7_PrecedenceEveryCaller ==
  \A u \in Users, f \in Named, t \in Named, raw \in RawAmounts, pin \in Pins :
    Stage(ib_transfer_check(u, f, t, raw, pin)) = Earliest(1, u, f, t, raw, pin)

\* C7, amended: a caller who has no account at all is turned away first,
\* with "No account found", whatever the request violates; for every caller
\* who has an account and every request, ib_transfer reports the error of the
\* earliest check the request violates in the order existence, distinctness,
\* status, ownership, amount validity, PIN, funds.
C7_PrecedenceWithAccount ==
  \A u \in Users, f \in Named, t \in Named, raw \in RawAmounts, pin \in Pins :
    IF _first_account_for_user(u, FALSE) = NULL
      THEN ib_transfer_check(u, f, t, raw, pin) = E_NO_ACCOUNT
      ELSE Stage(ib_transfer_check(u, f, t, raw, pin)) = Earliest(1, u, f, t, raw, pin)

\* ib_transfer has just answered "Both accounts must be ACTIVE" where a
\* request of a caller with an account violates the status check and, with
\* it, the ownership, the PIN and the funds check
C7_Witness ==
  /\ last.op = "ib_transfer"
  /\ last.code = E_NOT_ACTIVE
  /\ \E u \in Users, f \in AccountIds, t \in AccountIds, raw \in RawAmounts, pin \in Pins :
       /\ _first_account_for_user(u, FALSE) # NULL
       /\ ib_transfer_check(u, f, t, raw, pin) = E_NOT_ACTIVE
       /\ Violates(4, u, f, t, raw, pin)
       /\ Violates(6, u, f, t, raw, pin)
       /\ Violates(7, u, f, t, raw, pin)

\* C8: ib_transfer goes on to post only for a source account that has an
\* InternetBanking credential and a presented PIN that matches its stored
\* hash; a request on a source account without credential, or with a PIN
\* that does not match, is always rejected.
C8_PinGate ==
  /\ \A w \in Workers :
       inflight[w].pc = "ib_transfer" =>
         /\ ib[inflight[w].src] # NoPin
         /\ ib[inflight[w].src] = bcrypt_hash(inflight[w].pin)
  /\ \A u \in Users, f \in AccountIds, t \in Named, raw \in RawAmounts, pin \in Pins :
       (ib[f] = NoPin \/ ib[f] # bcrypt_hash(pin))
         => ib_transfer_check(u, f, t, raw, pin) # OK

\* a transfer has been posted and a later request has been rejected at the
\* PIN check
C8_Witness ==
  /\ \E t \in 1 .. Len(txs) : txs[t].type = "TRANSFER"
  /\ last.op = "ib_transfer"
  /\ last.code = E_PIN

\* the account of the entry of transaction tx_id on side dr_cr, NULL when the
\* transaction has no such entry
EntryAccount(tx_id, dr_cr) ==
  IF \E i \in 1 .. Len(entries) :
       entries[i].transaction_id = tx_id /\ entries[i].dr_cr = dr_cr
    THEN entries[CHOOSE i \in 1 .. Len(entries) :
           entries[i].transaction_id = tx_id /\ entries[i].dr_cr = dr_cr].account_id
    ELSE NULL

\* C9: every transfer ib_transfer posts, and every transfer on its way to
\* being posted, has a source different from its destination, both accounts
\* ACTIVE, and a source owned by the customer of the caller; a request that
\* violates one of the three is rejected.
C9_TransferParties ==
  /\ \A w \in Workers :
       inflight[w].pc = "ib_transfer" =>
         /\ inflight[w].src # inflight[w].dst
         /\ accounts[inflight[w].src].status = "ACTIVE"
         /\ accounts[inflight[w].dst].status = "ACTIVE"
         /\ _get_customer(inflight[w].caller) # NULL
         /\ accounts[inflight[w].src].customer_id = _get_customer(inflight[w].caller)
  /\ \A t \in 1 .. Len(txs) :
       txs[t].type = "TRANSFER" =>
         LET x == EntryAccount(t, "DR")
             y == EntryAccount(t, "CR")
         IN /\ x \in AccountIds /\ y \in AccountIds /\ x # y
            /\ accounts[x].status = "ACTIVE" /\ accounts[y].status = "ACTIVE"
            /\ _get_customer(txs[t].created_by) # NULL
            /\ accounts[x].customer_id = _get_customer(txs[t].created_by)
  /\ \A u \in Users, f \in AccountIds, t \in AccountIds, raw \in RawAmounts, pin \in Pins :
       (\/ f = t
        \/ accounts[f].status # "ACTIVE"
        \/ accounts[t].status # "ACTIVE"
        \/ _get_customer(u) = NULL
        \/ accounts[f].customer_id # _get_customer(u))
         => ib_transfer_check(u, f, t, raw, pin) # OK

\* a transfer has been posted and a later request, on a source account of
\* another customer, has been rejected
C9_Witness ==
  /\ \E t \in 1 .. Len(txs) : txs[t].type = "TRANSFER"
  /\ last.op = "ib_transfer"
  /\ last.code = E_NOT_ALLOWED

\* C10: a request that passes the checks before the funds check is rejected
\* with "Insufficient funds" exactly when the balance of the source is
\* strictly less than the amount, and is accepted otherwise, so also when the
\* amount equals the balance; the rejection reports the balance of the
\* source; a transfer posted for an amount equal to the balance of its source
\* leaves that balance at 0 and reports 0.
C10_FundsBoundary ==
  /\ [](\A u \in Users, f \in AccountIds, t \in AccountIds, raw \in RawAmounts, pin \in Pins :
          Earliest(1, u, f, t, raw, pin) >= 7 =>
            /\ ib_transfer_check(u, f, t, raw, pin) = E_FUNDS
                 <=> BalanceIn(entries, f) < raw.v
            /\ ib_transfer_check(u, f, t, raw, pin) = OK
                 <=> BalanceIn(entries, f) >= raw.v)
  /\ [][/\ (TransferRejected /\ last'.code = E_FUNDS) =>
             /\ last'.acc \in AccountIds
             /\ last'.bal = BalanceIn(entries, last'.acc)
        /\ \A w \in Workers :
             (TransferPosted(w) /\ inflight[w].amt = BalanceIn(entries, inflight[w].src)) =>
               /\ BalanceIn(entries', inflight[w].src) = 0
               /\ last'.bal = 0]_vars

\* a transfer of the whole balance has been posted, leaving the source at 0,
\* and the next request on that source has been rejected for funds, with the
\* balance 0 in the response
C10_Witness ==
  /\ last.op = "ib_transfer"
  /\ last.code = E_FUNDS
  /\ last.bal = 0
  /\ SumAmount(entries, last.acc, "DR") = SumAmount(entries, last.acc, "CR")
  /\ SumAmount(entries, last.acc, "DR") > 0

----------------------------------------------------------------------------
(* Deposits and disbursals *)

\* a step in which teller u's request to deposit raw into account acc, through
\* handler op, passes the checks of that handler and is posted
DepositPosted(op, u, acc, raw) ==
  /\ IF op = "ops_post_deposit"
       THEN ops_post_deposit_check(u, acc, raw) = OK
       ELSE ops_accept_cash_deposit_check(u, TRUE, acc, raw) = OK
  /\ PostDeposit(op, u, acc, raw.v)

\* C11: a successful cash deposit of amount a to account Z, through
\* ops_post_deposit or ops_accept_cash_deposit, creates exactly one
\* transaction, of type DEPOSIT and status POSTED, with exactly two entries,
\* DR CASH_VAULT for a and CR Z for a; the balance of Z increases by exactly a
\* and no other balance changes.
C11_DepositMovesAmount ==
  [][\A op \in {"ops_post_deposit", "ops_accept_cash_deposit"}, u \in Users,
        acc \in AccountIds, raw \in RawAmounts :
       DepositPosted(op, u, acc, raw) =>
         LET tx_id == Len(txs) + 1
         IN /\ txs' = Append(txs, [type |-> "DEPOSIT", status |-> "POSTED",
                                   created_by |-> u])
            /\ entries' = entries \o
                 << [transaction_id |-> tx_id, account_id |-> NULL,
                     gl_code |-> GL_CASH_VAULT, dr_cr |-> "DR", amount |-> raw.v],
                    [transaction_id |-> tx_id, account_id |-> acc, gl_code |-> NoGL,
                     dr_cr |-> "CR", amount |-> raw.v] >>
            /\ \A a \in AccountIds :
                 BalanceIn(entries', a) =
                   BalanceIn(entries, a) + (IF a = acc THEN raw.v ELSE 0)]_vars

\* a step that adds a LOAN_DISBURSAL transaction to the ledger
DisbursalPosted ==
  /\ Len(txs') = Len(txs) + 1
  /\ txs'[Len(txs')].type = "LOAN_DISBURSAL"

\* a step in which ops_loan_disburse returns one of its rejections
DisbursalRejected ==
  /\ last'.op = "ops_loan_disburse"
  /\ last'.code # OK

\* C12: ops_loan_disburse accepts a request only for an application in
\* status APPROVED, a target account that is ACTIVE and an amount above 0;
\* every step that posts a LOAN_DISBURSAL transaction posts it for an APPROVED
\* application and an ACTIVE account, as one transaction with the two entries
\* DR BANK_LOAN_GL and CR the target account, of one amount; a rejected
\* request (application PENDING or REJECTED, account not ACTIVE, ...) posts
\* nothing.
C12_DisbursalGating ==
  /\ [](\A u \in Users, app \in LoanIds, acc \in AccountIds, given \in BOOLEAN,
          raw \in RawAmounts :
          ops_loan_disburse_check(u, app, acc, given, raw) = OK =>
            /\ loanApps[app].status = "APPROVED"
            /\ accounts[acc].status = "ACTIVE"
            /\ disburse_amount(app, given, raw).ok
            /\ disburse_amount(app, given, raw).v > 0)
  /\ [][/\ DisbursalPosted =>
             \E app \in LoanIds, acc \in AccountIds :
               /\ loanApps[app].status = "APPROVED"
               /\ accounts[acc].status = "ACTIVE"
               /\ loanHistory' = Append(loanHistory,
                    [application_id |-> app, to_stage |-> "DISBURSED",
                     remarks |-> accounts[acc].account_no])
               /\ txs' = Append(txs, [type |-> "LOAN_DISBURSAL", status |-> "POSTED",
                                      created_by |-> txs'[Len(txs')].created_by])
               /\ Len(entries') = Len(entries) + 2
               /\ SubSeq(entries', 1, Len(entries)) = entries
               /\ LET dr == entries'[Len(entries) + 1]
                      cr == entries'[Len(entries) + 2]
                  IN /\ dr = [transaction_id |-> Len(txs) + 1, account_id |-> NULL,
                              gl_code |-> GL_BANK_LOAN, dr_cr |-> "DR",
                              amount |-> cr.amount]
                     /\ cr = [transaction_id |-> Len(txs) + 1, account_id |-> acc,
                              gl_code |-> NoGL, dr_cr |-> "CR", amount |-> dr.amount]
        /\ DisbursalRejected => UNCHANGED db]_vars

\* a disbursal has been posted, an application has been declined, and a
\* request to disburse an application that is not APPROVED has just been
\* rejected
C12_Witness ==
  /\ \E t \in 1 .. Len(txs) : txs[t].type = "LOAN_DISBURSAL"
  /\ \E app \in LoanIds : loanApps[app].status = "REJECTED"
  /\ last.op = "ops_loan_disburse"
  /\ last.code = E_LOAN_NOT_APPROVED

\* C13: every LOAN_DISBURSAL transaction ops_loan_disburse posts for a loan
\* application credits an account of the customer who owns that application.
C13_DisbursalCreditsBorrower ==
  [][DisbursalPosted =>
       LET h == loanHistory'[Len(loanHistory')]
           cr == entries'[Len(entries')]
       IN /\ Len(loanHistory') = Len(loanHistory) + 1
          /\ h.to_stage = "DISBURSED"
          /\ cr.dr_cr = "CR"
          /\ cr.account_id \in AccountIds
          /\ accounts[cr.account_id].customer_id = loanApps[h.application_id].customer_id]_vars

----------------------------------------------------------------------------
(* Account numbers *)

\* the accounts of branch b, by id
BranchAccounts(b) == {i \in AccountIds : accounts[i].branch_id = b}

\* the position of account i among the accounts of its branch, in the order
\* of their creation
RankInBranch(i) ==
  Cardinality({j \in BranchAccounts(accounts[i].branch_id) : j <= i})

\* a step in which an approval creates an account
AccountCreated == Len(accounts') = Len(accounts) + 1

\* C14: under approvals that do not overlap, the serials issued within one
\* branch start at 1000000001 and increase strictly (the k-th account of a
\* branch carries serial 1000000001 + k - 1), each account number is the
\* branch code followed by the serial, no two accounts share an account
\* number, and the sequence row's next_serial is advanced exactly once, by 1,
\* per account created (and not otherwise).
C14_SerialSequence ==
  /\ [](/\ \A i \in AccountIds :
            accounts[i].account_no =
              BranchCode(accounts[i].branch_id)
                \o Digits(START_SERIAL + RankInBranch(i) - 1)
        /\ \A i \in AccountIds, j \in AccountIds :
            i # j => accounts[i].account_no # accounts[j].account_no
        /\ \A b \in Branches :
            IF seq[b] = NULL THEN BranchAccounts(b) = {}
            ELSE seq[b] = START_SERIAL + Cardinality(BranchAccounts(b)))
  /\ [][/\ AccountCreated =>
             LET b == accounts'[Len(accounts')].branch_id
             IN /\ SubSeq(accounts', 1, Len(accounts)) = accounts
                /\ seq'[b] = (IF seq[b] = NULL THEN START_SERIAL ELSE seq[b]) + 1
                /\ \A c \in Branches \ {b} : seq'[c] = seq[c]
        /\ seq' # seq => AccountCreated]_vars

\* two approvals, one after the other, have opened the first two accounts of
\* the branch that had no sequence row
C14_Witness ==
  /\ Cardinality(BranchAccounts(2)) = 2
  /\ seq[2] = START_SERIAL + 2
  /\ \A w \in Workers : inflight[w].pc = "idle"

\* a step in which worker w ends an approval that found no sequence row for
\* its branch when it began, of a request no other approval has decided
LazyInitEnds(w) ==
  /\ inflight[w].pc = "ops_approve_request"
  /\ ~inflight[w].has_seq
  /\ requests[inflight[w].req].status = "PENDING"
  /\ inflight'[w].pc = "idle"

\* C15: when a branch has no sequence row and two approvals for the branch
\* overlap, the row is created once and the approval that comes second finds
\* it: every approval that began without a sequence row completes, its
\* account created under a serial no other account of the branch carries.
C15_LazyInitRaceSafe ==
  [][\A w \in Workers :
       LazyInitEnds(w) =>
         /\ last'.code = OK
         /\ AccountCreated
         /\ \A i \in AccountIds :
              accounts'[i].account_no # accounts'[Len(accounts')].account_no]_vars

----------------------------------------------------------------------------
(* What a reader sees *)

\* the committed entries of transaction tx_id
EntriesOf(tx_id) == SelectSeq(entries, LAMBDA e : e.transaction_id = tx_id)

\* C16: in every state of the committed tables, which is what account_balance,
\* account_transactions and the funds check of another request read, every
\* transaction is there with its complete entry set, two entries, one DR and
\* one CR of equal amounts, and every entry belongs to a transaction that is
\* there: no transaction with zero or one entry, no entry without its
\* transaction, at whatever step the sessions of the requests under way
\* stand, and after a request has died between creating its Transaction row
\* and its commit. A step makes a transaction visible together with its two
\* entries or not at all.
C16_AtomicVisibility ==
  /\ [](/\ \A t \in 1 .. Len(txs) :
            /\ Len(EntriesOf(t)) = 2
            /\ SideSum(entries, t, "DR") = SideSum(entries, t, "CR")
            /\ \E i \in 1 .. 2 : EntriesOf(t)[i].dr_cr = "DR"
            /\ \E i \in 1 .. 2 : EntriesOf(t)[i].dr_cr = "CR"
        /\ \A i \in 1 .. Len(entries) : entries[i].transaction_id \in 1 .. Len(txs))
  /\ [][/\ txs' # txs <=> entries' # entries
        /\ \A w \in Workers :
             (inflight[w].stage # "" /\ inflight'[w].pc = "idle"
                /\ last'.code = E_SERVER_ERROR) => UNCHANGED db]_vars

\* a request stands between its flush and its commit, with its entries
\* added, after one request has committed and another has died past its flush
C16_Witness ==
  /\ \E w \in Workers : inflight[w].stage = "added"
  /\ last.code = E_SERVER_ERROR
  /\ Len(txs) > 1

\* C17: the ledger is append-only: across every sequence of the operations,
\* every step keeps every committed entry in its place with every field as it
\* was (transaction, account or GL target, direction, amount); entries are
\* only ever added, after the ones that are there.
C17_AppendOnly ==
  [][/\ Len(entries') >= Len(entries)
     /\ \A i \in 1 .. Len(entries) : entries'[i] = entries[i]]_vars

\* the ledger is full and a SIP instalment is among the transactions posted
\* on top of the first
C17_Witness ==
  /\ Len(txs) = MaxTx
  /\ Len(entries) = 2 * MaxTx
  /\ \E i \in 3 .. Len(entries) : entries[i].gl_code = GL_INVESTMENT

\* C18: every entry in the ledger names exactly one target: either an
\* account (account_id set, gl_code null) or a general-ledger bucket (gl_code
\* set, account_id null), never both and never neither, whichever posting
\* operation created it.
C18_OneTarget ==
  \A i \in 1 .. Len(entries) :
    /\ entries[i].account_id # NULL \/ entries[i].gl_code # NoGL
    /\ ~(entries[i].account_id # NULL /\ entries[i].gl_code # NoGL)
    /\ entries[i].account_id # NULL => entries[i].account_id \in AccountIds
    /\ entries[i].gl_code # NoGL =>
         entries[i].gl_code \in {GL_CASH_VAULT, GL_BANK_LOAN, GL_INVESTMENT}

\* the ledger holds a deposit, a loan disbursal and a SIP instalment
C18_Witness ==
  /\ \E i \in 1 .. Len(entries) : entries[i].gl_code = GL_CASH_VAULT
  /\ \E i \in 1 .. Len(entries) : entries[i].gl_code = GL_BANK_LOAN
  /\ \E i \in 1 .. Len(entries) : entries[i].gl_code = GL_INVESTMENT

\* C19: every entry in the ledger carries, as stored with two fractional
\* digits, an amount strictly above 0, whichever amount the deposit, approval,
\* transfer, disbursal or SIP request that posted it was accepted with.
C19_PositiveAmounts ==
  \A i \in 1 .. Len(entries) :
    /\ entries[i].amount % Cent = 0
    /\ entries[i].amount > 0

----------------------------------------------------------------------------
(* The history reader *)

\* the limit of a page as the contract has it: the limit asked for, clamped
\* to 1 .. 100; 20 when none is given or it does not parse
ClampedLimit(limit_raw) ==
  IF ~limit_raw.given \/ ~limit_raw.ok THEN 20
  ELSE IF limit_raw.v < 1 THEN 1
  ELSE IF limit_raw.v > 100 THEN 100
  ELSE limit_raw.v

\* the rows of the ledger that belong to the history of account a before the
\* cursor: entries of the account, posted strictly earlier than the cursor
InHistory(a, before_raw) ==
  {i \in 1 .. Len(entries) :
     /\ entries[i].account_id = a
     /\ before_raw.given => entries[i].posted_at < before_raw.v}

\* row i comes earlier than row j in the descending order of posting time,
\* then id
Earlier(i, j) ==
  \/ entries[i].posted_at > entries[j].posted_at
  \/ entries[i].posted_at = entries[j].posted_at /\ i > j

\* page is the first L rows of the history of account a before the cursor, in
\* descending order
IsFirstPage(page, a, before_raw, L) ==
  LET H == InHistory(a, before_raw)
  IN /\ Len(page) = (IF Cardinality(H) < L THEN Cardinality(H) ELSE L)
     /\ \A k \in 1 .. Len(page) : page[k] \in H
     /\ \A k \in 1 .. Len(page) - 1 : Earlier(page[k], page[k + 1])
     /\ \A i \in H :
          (\A k \in 1 .. Len(page) : page[k] # i) =>
            \A k \in 1 .. Len(page) : Earlier(page[k], i)

\* C20: for every account, cursor and limit, the page account_transactions
\* reads is exactly the first L entries of the account's ledger entries posted
\* strictly earlier than `before` (all its entries without `before`), in
\* descending order of posting time and then entry id, L being `limit`
\* clamped to 1 .. 100, 20 when absent or unparsable; entries of other
\* accounts and GL entries are not in it. (The reader leaves the ledger as it
\* finds it, so this is stated of the ledger before the first read.)
C20_HistoryPage ==
  last.op = "" =>
    \A a \in AccountIds, before_raw \in BeforeArgs \ {BadArg}, limit_raw \in LimitArgs :
      /\ page_limit(limit_raw) = ClampedLimit(limit_raw)
      /\ IsFirstPage(history_rows(a, before_raw, limit_raw), a, before_raw,
                     ClampedLimit(limit_raw))

\* the reader has returned a page of two entries posted at the same time,
\* in descending order of id, cut short by the limit, from a ledger that also
\* holds entries of another account
C20_Witness ==
  /\ last.op = "account_transactions"
  /\ last.code = OK
  /\ Len(last.rows) = 2
  /\ entries[last.rows[1]].posted_at = entries[last.rows[2]].posted_at
  /\ last.rows[1] > last.rows[2]
  /\ Cardinality(InHistory(last.acc, NoArg)) > 2
  /\ \E i \in 1 .. Len(entries) : entries[i].account_id \notin {NULL, last.acc}

\* the pages a client collects that starts at `before_raw` and calls again
\* with before = the cursor of the page it got, until a page comes without a
\* cursor; the rows of the pages one after the other
RECURSIVE PagesFrom(_, _, _)
PagesFrom(a, before_raw, limit_raw) ==
  LET page == history_rows(a, before_raw, limit_raw)
  IN IF next_before(page) = NoCursor THEN page
     ELSE page \o PagesFrom(a, next_before(page), limit_raw)

\* C21: for every ledger, account and limit, the pages read from no cursor
\* on, each with before = the next_cursor of the page before, up to the end
\* of the history, are together exactly the list of the account's entries in
\* descending order of posting time and id: no entry skipped, none repeated.
C21_PaginationComplete ==
  \A a \in AccountIds, limit_raw \in LimitArgs :
    IsFirstPage(PagesFrom(a, NoArg, limit_raw), a, NoArg, Len(entries) + 1)

\* C22: the next_cursor account_transactions returns with a page is the
\* posting time of the last item of the page when the page is full (as many
\* items as the limit), and is empty when the page is short, an empty page
\* included.
C22_NextCursor ==
  \A a \in AccountIds, before_raw \in BeforeArgs \ {BadArg}, limit_raw \in LimitArgs :
    LET page == history_rows(a, before_raw, limit_raw)
    IN IF Len(page) = ClampedLimit(limit_raw)
         THEN next_before(page) = Arg(entries[page[Len(page)]].posted_at)
         ELSE next_before(page) = NoCursor

\* the siblings of ledger row i: the rows of its transaction on another
\* account, and those on a general-ledger bucket
AccountSiblings(i) ==
  {j \in 1 .. Len(entries) :
     /\ entries[j].transaction_id = entries[i].transaction_id
     /\ entries[j].account_id # NULL
     /\ entries[j].account_id # entries[i].account_id}

GLSiblings(i) ==
  {j \in 1 .. Len(entries) :
     /\ entries[j].transaction_id = entries[i].transaction_id
     /\ entries[j].account_id = NULL
     /\ entries[j].gl_code # NoGL}

\* the counterparty an item of a page shows: its `from` when the entry is a
\* credit of the account, its `to` when it is a debit
CounterpartyShown(item) == IF item.dr_cr = "CR" THEN item.from ELSE item.to

DeskOps ==
  {"ops_post_deposit", "ops_accept_cash_deposit", "ops_loan_disburse",
   "ops_sip_process", "ops_approve_request"}

\* the step ends a request of the staff by turning it away
DeskRejected == last' # last /\ last'.op \in DeskOps /\ last'.code # OK

\* C24: a step in which ops_post_deposit, ops_accept_cash_deposit,
\* ops_loan_disburse, ops_sip_process or ops_approve_request turns a request
\* away leaves the transactions, the ledger entries, the accounts, the branch
\* sequence rows and the request and application rows (their statuses) as
\* they were.
C24_RejectedNoPartialState ==
  [][DeskRejected =>
       UNCHANGED <<txs, entries, accounts, seq, requests, loanApps, sipApps>>]_vars

\* every one of the five has turned a request away for a reason of its own
\* while another request is under way
C24_Witness ==
  /\ last.op = "ops_sip_process" /\ last.code = E_SIP_FUNDS
  /\ Len(txs) > 1

\* account a has paid a SIP instalment: a debit of a whose transaction
\* credits the investment pool
PaidSip(a) ==
  \E i, j \in 1 .. Len(entries) :
    /\ entries[i].account_id = a /\ entries[i].dr_cr = "DR"
    /\ entries[j].transaction_id = entries[i].transaction_id
    /\ entries[j].gl_code = GL_INVESTMENT /\ entries[j].dr_cr = "CR"

\* C25: a SIP instalment and a transfer (or two SIP instalments) that debit
\* the same account at the same time, each covered by the balance but not both
\* together, never both commit: an account that has paid a SIP instalment has
\* a balance of zero or more, whatever the interleaving.
C25_SipNeverOverdraws ==
  \A a \in AccountIds : PaidSip(a) => Balance(a) >= 0

\* C26: when the requests run one after the other (approvals with an initial
\* deposit, deposits, transfers, loan disbursals and SIP instalments), the
\* balance of every account is zero or more.
C26_SequentialNonNegative ==
  \A a \in AccountIds : Balance(a) >= 0

\* an account emptied by a SIP instalment, and a transaction posted since
C26_Witness ==
  /\ PaidSip(1) /\ Balance(1) = 0
  /\ Len(txs) = MaxTx
  /\ AllIdle

\* the disbursals of loan application app: the rows the handler adds to the
\* application's history, one with every LOAN_DISBURSAL transaction it posts
Disbursals(app) ==
  {n \in 1 .. Len(loanHistory) :
     loanHistory[n].application_id = app /\ loanHistory[n].to_stage = "DISBURSED"}

\* C27: a loan application is disbursed at most once: the ledger holds at most
\* one LOAN_DISBURSAL transaction for it, a second ops_loan_disburse on the
\* application being turned away.
C27_DisbursedOnce ==
  \A app \in LoanIds : Cardinality(Disbursals(app)) <= 1

\* the accounts opened since Init
OpenedAccounts == {a \in AccountIds : a > 3}

\* a request that is APPROVED or REJECTED keeps its status in the step
StatusKept ==
  \A r \in RequestIds :
    requests[r].status # "PENDING" => requests'[r].status = requests[r].status

\* C28: an account request is decided once. Each request leads to at most one
\* account (the accounts opened are no more than the requests that are
\* APPROVED, so neither two approvals of one request nor an approval of a
\* declined one open an account), and a request that is APPROVED or REJECTED
\* never changes its status again.
C28_RequestTerminal ==
  /\ [](Cardinality(OpenedAccounts) <=
         Cardinality({r \in RequestIds : requests[r].status = "APPROVED"}))
  /\ [][StatusKept]_vars

\* the sum of the balances of the customer accounts in the ledger rows es: CR
\* minus DR over the entries on an account
RECURSIVE CustomerTotal(_)
CustomerTotal(es) ==
  IF es = << >> THEN 0
  ELSE CustomerTotal(Tail(es))
       + (IF Head(es).account_id = NULL THEN 0
          ELSE IF Head(es).dr_cr = "CR" THEN Head(es).amount
          ELSE 0 - Head(es).amount)

\* what the general-ledger buckets have paid out in the ledger rows es: DR
\* minus CR over the entries on a bucket
RECURSIVE BucketTotal(_)
BucketTotal(es) ==
  IF es = << >> THEN 0
  ELSE BucketTotal(Tail(es))
       + (IF Head(es).account_id # NULL THEN 0
          ELSE IF Head(es).dr_cr = "DR" THEN Head(es).amount
          ELSE 0 - Head(es).amount)

\* a step in which a transfer ends leaves the sum of the customer balances
TransferKeepsTotal ==
  (last' # last /\ last'.op = "ib_transfer") =>
    CustomerTotal(entries') = CustomerTotal(entries)

\* a step that changes the sum of the customer balances posts a deposit, a
\* disbursal or a SIP instalment (a TRANSFER against the investment pool), and
\* changes the sum by what its bucket pays out
TotalMovesAgainstBucket ==
  (CustomerTotal(entries') # CustomerTotal(entries)) =>
    (/\ Len(txs') = Len(txs) + 1
     /\ txs'[Len(txs')].type \in {"DEPOSIT", "LOAN_DISBURSAL", "TRANSFER"}
     /\ last'.op # "ib_transfer"
     /\ BucketTotal(entries') - BucketTotal(entries)
          = CustomerTotal(entries') - CustomerTotal(entries))

\* C29: conservation of money: in every committed state the sum of the
\* balances of the customer accounts equals the sum over the general-ledger
\* buckets of DR minus CR; a transfer leaves the sum of the customer balances
\* as it was, and every step that changes it is a deposit, a disbursal or a
\* SIP instalment, by the amount moved against a bucket.
C29_Conservation ==
  /\ [](CustomerTotal(entries) = BucketTotal(entries))
  /\ [][TransferKeepsTotal /\ TotalMovesAgainstBucket]_vars

\* the ledger is full, with a transfer the last to be posted and a loan
\* disbursed before it
C29_Witness ==
  /\ Len(txs) = MaxTx
  /\ last.op = "ib_transfer" /\ last.code = OK
  /\ \E t \in 1 .. Len(txs) : txs[t].type = "LOAN_DISBURSAL"

\* the credential of account a changes in the step only as the lifecycle
\* allows: a stored PIN is replaced by ib_change_pin (by the hash of the new
\* PIN) or removed by ib_deactivate, never by ib_activate; an account without
\* a credential gets one by ib_activate alone
CredentialLifecycle(a) ==
  /\ (ib[a] # NoPin /\ ib'[a] # ib[a]) =>
        /\ last'.code = OK /\ last'.acc = a
        /\ \/ last'.op = "ib_change_pin" /\ ib'[a] = bcrypt_hash(last'.pin)
           \/ last'.op = "ib_deactivate" /\ ib'[a] = NoPin
  /\ (ib[a] = NoPin /\ ib'[a] # NoPin) =>
        /\ last'.op = "ib_activate" /\ last'.code = OK /\ last'.acc = a
        /\ ib'[a] = bcrypt_hash(last'.pin)

\* an ib_activate turned away because the account is activated leaves the
\* credentials as they were
ReactivationRejected ==
  (last'.op = "ib_activate" /\ last'.code = E_IB_ALREADY) => ib' = ib

\* a transfer passes its checks in the step only with the PIN stored for its
\* source account at that time: none for an account without a credential
\* (never activated, or deactivated since), and after a change the new PIN
\* only
TransferNeedsStoredPin ==
  \A w \in Workers :
    (inflight[w].pc # "ib_transfer" /\ inflight'[w].pc = "ib_transfer") =>
      /\ ib[inflight'[w].src] # NoPin
      /\ ib[inflight'[w].src] = bcrypt_hash(inflight'[w].pin)

\* C30: the PIN credential gates transfers over its lifecycle: ib_activate on
\* an activated account is rejected and leaves the stored PIN unchanged, so an
\* account has at most one credential; after ib_deactivate no transfer from
\* the account passes until a later ib_activate; after ib_change_pin only the
\* new PIN authorizes a transfer, never the old one.
C30_PinLifecycle ==
  [][/\ \A a \in 1 .. MaxAccounts : CredentialLifecycle(a)
     /\ ReactivationRejected
     /\ TransferNeedsStoredPin]_vars

\* account 1 has been deactivated, account 2 activated, and a transfer has
\* been turned away for its PIN
C30_Witness ==
  /\ ib[1] = NoPin
  /\ ib[2] = bcrypt_hash(PinB)
  /\ last.op = "ib_transfer" /\ last.code = E_PIN

====
